---- MODULE Spec2Model ----
(***************************************************************************)
(* Credit-point distribution and incentive calculation of the vehicle      *)
(* service backend.                                                        *)
(*                                                                         *)
(* One service order with its service items, the ServiceType collection    *)
(* and the staff (User) collection are the persisted state.  The handlers  *)
(* of routes/services.js and the methods of the Service and User models    *)
(* are the actions.  Under Spec every handler runs from its load to its    *)
(* last save without interleaving; SpecConc interleaves two               *)
(* update-service-item requests at their await points.                     *)
(*                                                                         *)
(* Numbers: credit points are JavaScript Numbers.  They are kept here as   *)
(* exact rationals with the common denominator Scale, so that              *)
(* creditPoints / techniciansCount is exact; rounding of IEEE doubles is   *)
(* not modelled.                                                           *)
(***************************************************************************)
EXTENDS Integers, Sequences, FiniteSets, TLC

\* ------------------------------------------------------------------------
\* Bounds of the model
\* ------------------------------------------------------------------------
NumUsers == 2       \* staff members that exist at the start
NumItems == 2       \* service items of the order
NumRequests == 2    \* update-service-item requests that can be in flight together (SpecConc)

UserIds == 1..NumUsers
ItemIds == 1..NumItems
Requests == 1..NumRequests
TypeIds == {"t1", "t2"}

RECURSIVE Factorial(_)
Factorial(n) == IF n <= 1 THEN 1 ELSE n * Factorial(n - 1)

\* Common denominator of every stored credit value: a technician list has at
\* most NumUsers entries, so every division by techniciansCount is exact.
Scale == Factorial(NumUsers)

\* creditPoints a ServiceType document is created with (ServiceType.js: min 0)
CreditValues == {6}

Statuses == {"pending", "in_progress", "completed", "cancelled"}
NoStatus == "absent"     \* the request body has no status key
NoTime == 0              \* completionTime not set
Now == 1                 \* new Date(); the handlers only read whether a completionTime is set

VARIABLES
  serviceItems,   \* persisted order: item id -> [serviceType, status, completionTime, technicians]
  orderStatus,    \* persisted status of the order
  serviceTypes,   \* ServiceType collection: type id -> [exists, creditPoints]
  users,          \* User collection: user id -> [exists, totalCreditPoints, serviceCapabilities]
  last,           \* the last operation's call of assignCreditPoints: item, return statement taken,
                  \* value returned; "notTriggered" for a completed transition that did not call it
                  \* (observation only)
  distOk,         \* items on which assignCreditPoints has returned true (observation only)
  distFailed,     \* items whose last distribution failed on an unresolvable type (observation only)
  completedSent,  \* items for which a completed transition was handled (observation only)
  req,            \* SpecConc: the update-service-item requests in flight, each with its
                  \* position and the documents it holds in memory
  monthlyTarget,      \* SpecBonus, SpecMetrics: the MonthlyTarget document
  achievedPoints,     \* SpecBonus: performanceMetrics.totalCreditPoints handed to calculateTargetBonus
  bonusResult,        \* SpecBonus: what calculateBonus returned, NoResult before the call
  completedServices,  \* SpecMetrics: the orders handed to calculatePerformanceMetrics
  metricsResult,      \* SpecMetrics: the metrics it returned, NoResult before the call
  incentiveDb,        \* incentive specifications: the collections calculateStaffIncentive reads
  incentiveArgs,      \* the arguments of the calculateStaffIncentive call
  incentiveResult,    \* what the call returned or threw, NoResult before the call
  monthlySalaries,    \* MonthlySalary collection: the documents in insertion order
  monthlyTargets,     \* MonthlyTarget collection: the documents in insertion order
  saveCalls,          \* SpecSaveConc: the saveIncentiveData calls in flight
  response            \* outcome of the last save or create operation (observation only)

orderVars == <<serviceItems, orderStatus, serviceTypes, users, last, distOk, distFailed,
               completedSent, req>>
calcVars == <<monthlyTarget, achievedPoints, bonusResult, completedServices, metricsResult>>
incentiveVars == <<incentiveDb, incentiveArgs, incentiveResult, monthlySalaries, monthlyTargets,
                   saveCalls, response>>
vars == <<orderVars, calcVars, incentiveVars>>

\* ------------------------------------------------------------------------
\* Documents
\* ------------------------------------------------------------------------
Technician(u) == [technician |-> u, creditPoints |-> 0, creditsAssigned |-> FALSE]

NoCapability == [has |-> FALSE, totalCreditsEarned |-> 0, completedServices |-> 0]

\* technicians.every(tech => tech.creditsAssigned); true of the empty list
AllCreditsAssigned(techs) == \A k \in 1..Len(techs) : techs[k].creditsAssigned

\* tech.technician.toString() === id, for some entry
IsAssigned(techs, u) == \E k \in 1..Len(techs) : techs[k].technician = u

\* findIndex(tech => tech.technician.toString() === id); 0 stands for -1
TechnicianIndex(techs, u) ==
  IF IsAssigned(techs, u)
  THEN CHOOSE k \in 1..Len(techs) :
         techs[k].technician = u /\ \A j \in 1..(k - 1) : techs[j].technician # u
  ELSE 0

\* Array.prototype.splice(k, 1)
Splice(s, k) == [j \in 1..(Len(s) - 1) |-> IF j < k THEN s[j] ELSE s[j + 1]]

RECURSIVE SumCredits(_, _)
SumCredits(techs, k) ==
  IF k > Len(techs) THEN 0 ELSE techs[k].creditPoints + SumCredits(techs, k + 1)

\* ------------------------------------------------------------------------
\* Service model: pre-save hook and assignCreditPoints
\* ------------------------------------------------------------------------
\* serviceSchema.pre('save'): the order's status from its items' statuses
preSaveStatus(items, old) ==
  LET allCompleted == \A i \in ItemIds : items[i].status = "completed"
      allCancelled == \A i \in ItemIds : items[i].status = "cancelled"
      hasPending == \E i \in ItemIds : items[i].status = "pending"
      hasInProgress == \E i \in ItemIds : items[i].status = "in_progress"
  IN IF allCompleted THEN "completed"
     ELSE IF allCancelled THEN "cancelled"
     ELSE IF hasInProgress THEN "in_progress"
     ELSE IF hasPending THEN "pending"
     ELSE old

\* userSchema.methods.addServiceCredits on one user document
addServiceCredits(user, typeId, creditsEarned) ==
  LET cap == user.serviceCapabilities[typeId]
      caps == IF cap.has
              THEN [user.serviceCapabilities EXCEPT
                      ![typeId].totalCreditsEarned = @ + creditsEarned,
                      ![typeId].completedServices = @ + 1]
              ELSE user.serviceCapabilities
  IN [user EXCEPT !.serviceCapabilities = caps,
                  !.totalCreditPoints = @ + creditsEarned]

\* The loop of assignCreditPoints over serviceItem.technicians, from entry k on
RECURSIVE CreditTechnicians(_, _, _, _, _)
CreditTechnicians(techs, us, typeId, points, k) ==
  IF k > Len(techs) THEN [technicians |-> techs, users |-> us]
  ELSE IF techs[k].creditsAssigned THEN CreditTechnicians(techs, us, typeId, points, k + 1)
  ELSE LET u == techs[k].technician
           techs2 == [techs EXCEPT ![k].creditPoints = points, ![k].creditsAssigned = TRUE]
           us2 == IF us[u].exists
                  THEN [us EXCEPT ![u] = addServiceCredits(us[u], typeId, points)]
                  ELSE us
       IN CreditTechnicians(techs2, us2, typeId, points, k + 1)

\* serviceType.creditPoints / techniciansCount
pointsPerTechnician(creditPoints, techniciansCount) == creditPoints \div techniciansCount

\* Mutant: no "credits already assigned" return before the type lookup
assignCreditPoints_NoGuard(items, i, types, us) ==
  LET item == items[i]
      unchanged(r, b) == [returned |-> r, branch |-> b, items |-> items, users |-> us,
                          saved |-> FALSE]
  IN IF item.status # "completed" THEN unchanged(FALSE, "notCompleted")
     ELSE IF ~types[item.serviceType].exists THEN unchanged(FALSE, "noServiceType")
     ELSE LET points == IF item.technicians = <<>> THEN 0
                        ELSE types[item.serviceType].creditPoints \div Len(item.technicians)
              done == CreditTechnicians(item.technicians, us, item.serviceType, points, 1)
          IN [returned |-> TRUE,
              branch |-> "credited",
              items |-> [items EXCEPT ![i].technicians = done.technicians],
              users |-> done.users,
              saved |-> TRUE]

\* Mutant: a missing ServiceType counts as zero credit points instead of failing
assignCreditPoints_NoTypeCheck(items, i, types, us) ==
  LET item == items[i]
      unchanged(r, b) == [returned |-> r, branch |-> b, items |-> items, users |-> us,
                          saved |-> FALSE]
  IN IF item.status # "completed" THEN unchanged(FALSE, "notCompleted")
     ELSE IF AllCreditsAssigned(item.technicians) THEN unchanged(TRUE, "alreadyAssigned")
     ELSE LET points == types[item.serviceType].creditPoints \div Len(item.technicians)
              done == CreditTechnicians(item.technicians, us, item.serviceType, points, 1)
          IN [returned |-> TRUE,
              branch |-> "credited",
              items |-> [items EXCEPT ![i].technicians = done.technicians],
              users |-> done.users,
              saved |-> TRUE]

\* serviceSchema.methods.assignCreditPoints on the loaded document `items`
\* (item id i), reading the collections types and us.  The result tells what
\* the method returned and at which return statement, the document and the
\* User collection after it, and whether it saved the document.
assignCreditPoints(items, i, types, us) ==
  LET item == items[i]
      unchanged(r, b) == [returned |-> r, branch |-> b, items |-> items, users |-> us,
                          saved |-> FALSE]
  IN IF item.status # "completed" THEN unchanged(FALSE, "notCompleted")
     ELSE IF AllCreditsAssigned(item.technicians) THEN unchanged(TRUE, "alreadyAssigned")
     ELSE IF ~types[item.serviceType].exists THEN unchanged(FALSE, "noServiceType")
     ELSE LET points == pointsPerTechnician(types[item.serviceType].creditPoints,
                                            Len(item.technicians))
              done == CreditTechnicians(item.technicians, us, item.serviceType, points, 1)
          IN [returned |-> TRUE,
              branch |-> "credited",
              items |-> [items EXCEPT ![i].technicians = done.technicians],
              users |-> done.users,
              saved |-> TRUE]

\* ------------------------------------------------------------------------
\* Initial state
\* ------------------------------------------------------------------------
NoResult == [called |-> FALSE]

\* The calculation variables where no calculation is modelled
NoCalculation ==
  /\ monthlyTarget = [targetCreditPoints |-> 0, bonusThresholds |-> <<>>]
  /\ achievedPoints = 0
  /\ bonusResult = NoResult
  /\ completedServices = <<>>
  /\ metricsResult = NoResult

\* What the last operation on the salary and target collections answered
Response(op, error, updated) == [op |-> op, error |-> error, updated |-> updated]

\* No such operation has answered yet
NoResponse == Response("none", "none", FALSE)

\* The incentive variables where no incentive calculation or save is modelled
NoIncentive ==
  /\ incentiveDb = <<>>
  /\ incentiveArgs = <<>>
  /\ incentiveResult = NoResult
  /\ monthlySalaries = <<>>
  /\ monthlyTargets = <<>>
  /\ saveCalls = <<>>
  /\ response = NoResponse

\* A request slot with no request in it
NoDoc == [items |-> <<>>, status |-> "none"]
IdleRequest == [pc |-> "idle", item |-> 0, doc |-> NoDoc, base |-> NoDoc, points |-> 0,
                k |-> 0, user |-> <<>>]

NotCalled == [item |-> 0, branch |-> "none", returned |-> FALSE]
NotTriggered(i) == [item |-> i, branch |-> "notTriggered", returned |-> FALSE]
Called(i, r) == [item |-> i, branch |-> r.branch, returned |-> r.returned]

\* serviceCapabilities the staff start with: the first has an entry for every
\* service type, the second for t1 only, the others none
InitialCapabilities(u) == IF u = 1 THEN TypeIds ELSE IF u = 2 THEN {"t1"} ELSE {}

\* serviceType the items are created with: t1 is a ServiceType document from
\* the start, t2 is created later (until then items of type t2 are unresolvable)
InitialServiceType(i) == IF i % 2 = 1 THEN "t1" ELSE "t2"

Init ==
  /\ serviceItems = [i \in ItemIds |->
                      [serviceType |-> InitialServiceType(i), status |-> "pending",
                       completionTime |-> NoTime, technicians |-> <<>>]]
  /\ orderStatus = "pending"
  /\ serviceTypes = [t \in TypeIds |->
                       IF t = "t1" THEN [exists |-> TRUE, creditPoints |-> 10 * Scale]
                       ELSE [exists |-> FALSE, creditPoints |-> 0]]
  /\ users = [u \in UserIds |->
               [exists |-> TRUE, totalCreditPoints |-> 0,
                serviceCapabilities |->
                  [t \in TypeIds |-> IF t \in InitialCapabilities(u)
                                     THEN [NoCapability EXCEPT !.has = TRUE]
                                     ELSE NoCapability]]]
  /\ last = NotCalled
  /\ distOk = {}
  /\ distFailed = {}
  /\ completedSent = {}
  /\ req = [r \in Requests |-> IdleRequest]
  /\ NoCalculation
  /\ NoIncentive

\* What a call of assignCreditPoints on item i leaves in the observation variables
Observe(i, r, wasResolvable) ==
  /\ distOk' = IF r.returned THEN distOk \cup {i} ELSE distOk
  /\ distFailed' = IF r.returned THEN distFailed \ {i}
                   ELSE IF ~wasResolvable THEN distFailed \cup {i}
                   ELSE distFailed

\* ------------------------------------------------------------------------
\* Handlers of routes/services.js, run without interleaving
\* ------------------------------------------------------------------------
\* PUT /:id/service-item/:serviceItemId with body {status: s} (or no status key)
\* Mutant: every completed transition assigns, whatever the completionTime
ShouldAssign_Always(s, item) == s = "completed"

\* req.body.status === 'completed' && !serviceItem.completionTime
ShouldAssign(s, item) == s = "completed" /\ item.completionTime = NoTime

UpdateServiceItem(i, s) ==
  LET applied == IF s = NoStatus THEN serviceItems
                 ELSE [serviceItems EXCEPT ![i].status = s]
      trigger == ShouldAssign(s, applied[i])
      stamped == [applied EXCEPT ![i].completionTime = Now]
      r == assignCreditPoints(stamped, i, serviceTypes, users)
      final == IF trigger THEN r.items ELSE applied
  IN /\ serviceItems' = final
     /\ orderStatus' = preSaveStatus(final, orderStatus)
     /\ users' = IF trigger THEN r.users ELSE users
     /\ last' = IF trigger THEN Called(i, r)
                ELSE IF s = "completed" THEN NotTriggered(i)
                ELSE NotCalled
     /\ IF trigger
        THEN Observe(i, r, serviceTypes[stamped[i].serviceType].exists)
        ELSE UNCHANGED <<distOk, distFailed>>
     /\ completedSent' = IF s = "completed" THEN completedSent \cup {i} ELSE completedSent
     /\ UNCHANGED <<serviceTypes, req, calcVars, incentiveVars>>

\* POST /:id/service-item/:serviceItemId/technician with body {technician: u}
AddTechnician(i, u) ==
  LET techs == serviceItems[i].technicians
      ok == users[u].exists /\ ~IsAssigned(techs, u)
      final == IF ok
               THEN [serviceItems EXCEPT ![i].technicians = Append(techs, Technician(u))]
               ELSE serviceItems
  IN /\ serviceItems' = final
     /\ orderStatus' = IF ok THEN preSaveStatus(final, orderStatus) ELSE orderStatus
     /\ last' = NotCalled
     /\ UNCHANGED <<serviceTypes, users, distOk, distFailed, completedSent, req, calcVars, incentiveVars>>

\* DELETE /:id/service-item/:serviceItemId/technician/:technicianId
RemoveTechnician(i, u) ==
  LET techs == serviceItems[i].technicians
      k == TechnicianIndex(techs, u)
      ok == /\ k # 0
            /\ ~(serviceItems[i].status = "completed" /\ techs[k].creditsAssigned)
      final == IF ok
               THEN [serviceItems EXCEPT ![i].technicians = Splice(techs, k)]
               ELSE serviceItems
  IN /\ serviceItems' = final
     /\ orderStatus' = IF ok THEN preSaveStatus(final, orderStatus) ELSE orderStatus
     /\ last' = NotCalled
     /\ UNCHANGED <<serviceTypes, users, distOk, distFailed, completedSent, req, calcVars, incentiveVars>>

\* service.assignCreditPoints(serviceItemId, User) called on the loaded order
InvokeAssignCreditPoints(i) ==
  LET r == assignCreditPoints(serviceItems, i, serviceTypes, users)
  IN /\ serviceItems' = r.items
     /\ orderStatus' = IF r.saved THEN preSaveStatus(r.items, orderStatus) ELSE orderStatus
     /\ users' = r.users
     /\ last' = Called(i, r)
     /\ IF serviceItems[i].status = "completed"
        THEN Observe(i, r, serviceTypes[serviceItems[i].serviceType].exists)
        ELSE UNCHANGED <<distOk, distFailed>>
     /\ UNCHANGED <<serviceTypes, completedSent, req, calcVars, incentiveVars>>

\* POST /api/v1/service-types: ServiceType.create(req.body)
CreateServiceType(t, creditPoints) ==
  /\ ~serviceTypes[t].exists
  /\ serviceTypes' = [serviceTypes EXCEPT ![t] = [exists |-> TRUE,
                                                  creditPoints |-> creditPoints * Scale]]
  /\ last' = NotCalled
  /\ UNCHANGED <<serviceItems, orderStatus, users, distOk, distFailed, completedSent, req, calcVars, incentiveVars>>

\* DELETE /api/v1/users/:id: user.remove()
DeleteUser(u) ==
  /\ users[u].exists
  /\ users' = [users EXCEPT ![u].exists = FALSE]
  /\ last' = NotCalled
  /\ UNCHANGED <<serviceItems, orderStatus, serviceTypes, distOk, distFailed, completedSent,
                 req, calcVars, incentiveVars>>


\* ------------------------------------------------------------------------
\* The update-service-item handler, one step per await (SpecConc)
\* ------------------------------------------------------------------------
\* A request holds the order document it loaded (doc), that document as it
\* was loaded or last saved (base), and the staff document it loaded (user).
\* save() writes the paths the request changed since base, and nothing else.

\* first entry from k on that is not yet credited; 0 if there is none
NextUncredited(techs, k) ==
  IF \E j \in k..Len(techs) : ~techs[j].creditsAssigned
  THEN CHOOSE j \in k..Len(techs) :
         ~techs[j].creditsAssigned /\ \A m \in k..(j - 1) : techs[m].creditsAssigned
  ELSE 0

\* The loop of assignCreditPoints from entry k on, up to its next await: it
\* marks the next uncredited entry and awaits User.findById, or leaves the
\* loop and awaits this.save()
ContinueLoop(q, k) ==
  LET j == NextUncredited(q.doc.items[q.item].technicians, k)
  IN IF j = 0 THEN [q EXCEPT !.pc = "saveAssign", !.k = 0]
     ELSE [q EXCEPT !.pc = "findUser", !.k = j,
                    !.doc.items[q.item].technicians[j].creditPoints = q.points,
                    !.doc.items[q.item].technicians[j].creditsAssigned = TRUE]

\* One field of the persisted document after save(): the request's value if
\* the request changed it, the persisted value otherwise
Saved(db, mine, loaded) == IF mine # loaded THEN mine ELSE db

\* The persisted items after save() of document doc (loaded or last saved as base)
SavedItems(db, doc, base) ==
  [j \in ItemIds |->
     [serviceType |-> db[j].serviceType,
      status |-> Saved(db[j].status, doc.items[j].status, base.items[j].status),
      completionTime |-> Saved(db[j].completionTime, doc.items[j].completionTime,
                               base.items[j].completionTime),
      technicians |->
        [m \in 1..Len(db[j].technicians) |->
           IF m <= Len(doc.items[j].technicians)
           THEN [technician |-> db[j].technicians[m].technician,
                 creditPoints |-> Saved(db[j].technicians[m].creditPoints,
                                        doc.items[j].technicians[m].creditPoints,
                                        base.items[j].technicians[m].creditPoints),
                 creditsAssigned |-> Saved(db[j].technicians[m].creditsAssigned,
                                           doc.items[j].technicians[m].creditsAssigned,
                                           base.items[j].technicians[m].creditsAssigned)]
           ELSE db[j].technicians[m]]]]

\* Service.findById, then the handler up to its first await: the body is
\* applied, and assignCreditPoints runs up to ServiceType.findById
LoadService(r, i, s) ==
  LET loaded == [items |-> serviceItems, status |-> orderStatus]
      applied == IF s = NoStatus THEN loaded ELSE [loaded EXCEPT !.items[i].status = s]
      trigger == ShouldAssign(s, applied.items[i])
      stamped == [applied EXCEPT !.items[i].completionTime = Now]
      q == [IdleRequest EXCEPT !.item = i, !.base = loaded]
  IN /\ req[r].pc = "idle"
     /\ req' = [req EXCEPT ![r] =
                  IF ~trigger THEN [q EXCEPT !.pc = "saveRoute", !.doc = applied]
                  ELSE IF AllCreditsAssigned(stamped.items[i].technicians)
                  THEN [q EXCEPT !.pc = "saveRoute", !.doc = stamped]
                  ELSE [q EXCEPT !.pc = "findType", !.doc = stamped]]
     /\ UNCHANGED <<serviceItems, orderStatus, serviceTypes, users, last, distOk,
                    distFailed, completedSent, calcVars, incentiveVars>>

\* ServiceType.findById answers: return false, or start the loop
FindServiceType(r) ==
  LET q == req[r]
      t == q.doc.items[q.item].serviceType
      points == pointsPerTechnician(serviceTypes[t].creditPoints,
                                    Len(q.doc.items[q.item].technicians))
  IN /\ q.pc = "findType"
     /\ req' = [req EXCEPT ![r] =
                  IF ~serviceTypes[t].exists THEN [q EXCEPT !.pc = "saveRoute"]
                  ELSE ContinueLoop([q EXCEPT !.points = points], 1)]
     /\ UNCHANGED <<serviceItems, orderStatus, serviceTypes, users, last, distOk,
                    distFailed, completedSent, calcVars, incentiveVars>>

\* User.findById answers: addServiceCredits changes the loaded staff document
\* and awaits its save(), or (no such user) the loop goes on
FindUser(r) ==
  LET q == req[r]
      item == q.doc.items[q.item]
      u == item.technicians[q.k].technician
  IN /\ q.pc = "findUser"
     /\ req' = [req EXCEPT ![r] =
                  IF users[u].exists
                  THEN [q EXCEPT !.pc = "saveUser",
                                 !.user = addServiceCredits(users[u], item.serviceType, q.points)]
                  ELSE ContinueLoop(q, q.k + 1)]
     /\ UNCHANGED <<serviceItems, orderStatus, serviceTypes, users, last, distOk,
                    distFailed, completedSent, calcVars, incentiveVars>>

\* user.save() writes the changed fields of the staff document; the loop goes on
SaveUser(r) ==
  LET q == req[r]
      item == q.doc.items[q.item]
      u == item.technicians[q.k].technician
      t == item.serviceType
  IN /\ q.pc = "saveUser"
     /\ users' = [users EXCEPT ![u].totalCreditPoints = q.user.totalCreditPoints,
                               ![u].serviceCapabilities[t] = q.user.serviceCapabilities[t]]
     /\ req' = [req EXCEPT ![r] = ContinueLoop([q EXCEPT !.user = <<>>], q.k + 1)]
     /\ UNCHANGED <<serviceItems, orderStatus, serviceTypes, last, distOk, distFailed,
                    completedSent, calcVars, incentiveVars>>

\* this.save() at the end of assignCreditPoints
SaveAssigned(r) ==
  LET q == req[r]
      doc == [q.doc EXCEPT !.status = preSaveStatus(q.doc.items, q.doc.status)]
  IN /\ q.pc = "saveAssign"
     /\ serviceItems' = SavedItems(serviceItems, doc, q.base)
     /\ orderStatus' = Saved(orderStatus, doc.status, q.base.status)
     /\ req' = [req EXCEPT ![r] = [q EXCEPT !.pc = "saveRoute", !.doc = doc, !.base = doc]]
     /\ UNCHANGED <<serviceTypes, users, last, distOk, distFailed, completedSent, calcVars, incentiveVars>>

\* service.save() at the end of the handler, and the response
SaveService(r) ==
  LET q == req[r]
      doc == [q.doc EXCEPT !.status = preSaveStatus(q.doc.items, q.doc.status)]
  IN /\ q.pc = "saveRoute"
     /\ serviceItems' = SavedItems(serviceItems, doc, q.base)
     /\ orderStatus' = Saved(orderStatus, doc.status, q.base.status)
     /\ req' = [req EXCEPT ![r] = IdleRequest]
     /\ UNCHANGED <<serviceTypes, users, last, distOk, distFailed, completedSent, calcVars, incentiveVars>>

\* The order the requests of SpecConc work on: item 1 has every staff member
\* as technician, the other items the first staff member; nothing is
\* completed and both service types exist
InitConc ==
  /\ serviceItems = [i \in ItemIds |->
                      [serviceType |-> InitialServiceType(i), status |-> "in_progress",
                       completionTime |-> NoTime,
                       technicians |-> IF i = 1 THEN [u \in UserIds |-> Technician(u)]
                                       ELSE <<Technician(1)>>]]
  /\ orderStatus = "in_progress"
  /\ serviceTypes \in {[t \in TypeIds |->
                          IF t = "t1" THEN [exists |-> TRUE, creditPoints |-> 10 * Scale]
                          ELSE [exists |-> e, creditPoints |-> IF e THEN 6 * Scale ELSE 0]] :
                       e \in BOOLEAN}
  /\ users = [u \in UserIds |->
               [exists |-> TRUE, totalCreditPoints |-> 0,
                serviceCapabilities |->
                  [t \in TypeIds |-> IF t \in InitialCapabilities(u)
                                     THEN [NoCapability EXCEPT !.has = TRUE]
                                     ELSE NoCapability]]]
  /\ last = NotCalled
  /\ distOk = {}
  /\ distFailed = {}
  /\ completedSent = {}
  /\ req = [r \in Requests |-> IdleRequest]
  /\ NoCalculation
  /\ NoIncentive

NextConc ==
  \/ \E r \in Requests, i \in ItemIds, s \in {"completed", "in_progress"} : LoadService(r, i, s)
  \/ \E r \in Requests : FindServiceType(r)
  \/ \E r \in Requests : FindUser(r)
  \/ \E r \in Requests : SaveUser(r)
  \/ \E r \in Requests : SaveAssigned(r)
  \/ \E r \in Requests : SaveService(r)

SpecConc == InitConc /\ [][NextConc]_vars

Next ==
  \/ \E i \in ItemIds, s \in Statuses \cup {NoStatus} : UpdateServiceItem(i, s)
  \/ \E i \in ItemIds, u \in UserIds : AddTechnician(i, u)
  \/ \E i \in ItemIds : InvokeAssignCreditPoints(i)
  \/ \E t \in TypeIds, c \in CreditValues : CreateServiceType(t, c)
  \/ \E u \in UserIds : DeleteUser(u)

Spec == Init /\ [][Next]_vars

\* ------------------------------------------------------------------------
\* Properties of credit distribution (checked under Spec)
\* ------------------------------------------------------------------------
Technicians(items) == [i \in ItemIds |-> items[i].technicians]

Resolvable(i) == serviceTypes[serviceItems[i].serviceType].exists

\* A step in which assignCreditPoints runs on item i, the item being completed
\* when it is called
AssignCalledOnCompleted(i) ==
  \/ InvokeAssignCreditPoints(i) /\ serviceItems[i].status = "completed"
  \/ UpdateServiceItem(i, "completed") /\ serviceItems[i].completionTime = NoTime

\* C1: every completed item on which distribution has returned success, with
\* at least one technician and a resolvable service type worth P, has
\* item-level creditPoints summing to exactly P.
C1_CreditsSumToServiceTypePoints ==
  \A i \in ItemIds :
    (/\ serviceItems[i].status = "completed"
     /\ i \in distOk
     /\ Len(serviceItems[i].technicians) >= 1
     /\ Resolvable(i))
    => SumCredits(serviceItems[i].technicians, 1)
         = serviceTypes[serviceItems[i].serviceType].creditPoints

\* C2: assignCreditPoints on a completed item whose technicians all have
\* creditsAssigned returns true and changes no technician entry and no staff
\* ledger.
C2_AlreadyCreditedIsNoOp ==
  [][\A i \in ItemIds :
       (AssignCalledOnCompleted(i) /\ AllCreditsAssigned(serviceItems[i].technicians))
       => /\ last'.returned
          /\ Technicians(serviceItems') = Technicians(serviceItems)
          /\ users' = users]_vars

C2_Witness ==
  /\ last.branch = "alreadyAssigned"
  /\ last.item \in ItemIds
  /\ Len(serviceItems[last.item].technicians) >= 1
  /\ \E u \in UserIds : users[u].totalCreditPoints > 0

\* C4: the update operation calls assignCreditPoints only for a request with
\* status completed on an item without completionTime, and a completed
\* transition sent again for an item changes no technician entry and no
\* staff ledger.
C4_OnlyFirstCompletedTransitionAssigns ==
  [][\A i \in ItemIds, s \in Statuses \cup {NoStatus} :
       UpdateServiceItem(i, s)
       => /\ (last'.branch \notin {"none", "notTriggered"})
               => (s = "completed" /\ serviceItems[i].completionTime = NoTime)
          /\ (s = "completed" /\ i \in completedSent)
               => /\ Technicians(serviceItems') = Technicians(serviceItems)
                  /\ users' = users]_vars

\* A completed transition was sent again for an item that has a technician
\* not yet credited and a resolvable service type
C4_Witness ==
  /\ last.branch = "notTriggered"
  /\ last.item \in ItemIds
  /\ Resolvable(last.item)
  /\ ~AllCreditsAssigned(serviceItems[last.item].technicians)
  /\ \E u \in UserIds : users[u].totalCreditPoints > 0

\* C5 as stated: whenever the item's ServiceType cannot be resolved,
\* assignCreditPoints reports failure and changes no technician entry and no
\* staff ledger.
C5_UnresolvableTypeFails ==
  [][\A i \in ItemIds :
       (AssignCalledOnCompleted(i) /\ ~Resolvable(i))
       => /\ ~last'.returned
          /\ Technicians(serviceItems') = Technicians(serviceItems)
          /\ users' = users]_vars

\* C5 amended: when the item's ServiceType cannot be resolved,
\* assignCreditPoints changes no technician entry and no staff ledger; it
\* reports failure if some technician of the item is not yet credited, and
\* success (without looking the type up) if every technician is credited or
\* the item has none.
C5_UnresolvableTypeNoPartialCredit ==
  [][\A i \in ItemIds :
       (AssignCalledOnCompleted(i) /\ ~Resolvable(i))
       => /\ last'.returned = AllCreditsAssigned(serviceItems[i].technicians)
          /\ Technicians(serviceItems') = Technicians(serviceItems)
          /\ users' = users]_vars

\* A distribution failed on the unresolvable type of an item that has a
\* technician not yet credited
C5_Witness ==
  /\ last.branch = "noServiceType"
  /\ last.item \in ItemIds
  /\ ~Resolvable(last.item)
  /\ Len(serviceItems[last.item].technicians) >= 1
  /\ ~AllCreditsAssigned(serviceItems[last.item].technicians)

\* C6: an item whose distribution failed on an unresolvable service type is
\* retriable: once the type is resolvable, a completed transition sent again
\* through the update operation credits its technicians.
C6_RetryAfterUnresolvableType ==
  [][\A i \in ItemIds :
       (UpdateServiceItem(i, "completed") /\ i \in distFailed /\ Resolvable(i))
       => AllCreditsAssigned(serviceItems'[i].technicians)]_vars

\* C7: a distribution that credits sets, for every technician not
\* yet credited, creditPoints = pointsPerTechnician and creditsAssigned, and
\* adds pointsPerTechnician to that staff member's lifetime total and to the
\* earned total of the service type, and 1 to its completed count (read for
\* the staff members whose document exists).
C7_EveryTechnicianLedgerIncreases ==
  [][\A i \in ItemIds :
       (/\ AssignCalledOnCompleted(i)
        /\ Resolvable(i)
        /\ ~AllCreditsAssigned(serviceItems[i].technicians))
       => LET techs == serviceItems[i].technicians
              t == serviceItems[i].serviceType
              p == serviceTypes[t].creditPoints \div Len(techs)
          IN /\ last'.returned
             /\ Len(serviceItems'[i].technicians) = Len(techs)
             /\ \A k \in 1..Len(techs) :
                  ~techs[k].creditsAssigned
                  => LET u == techs[k].technician
                     IN /\ serviceItems'[i].technicians[k].creditPoints = p
                        /\ serviceItems'[i].technicians[k].creditsAssigned
                        /\ users[u].exists
                             => /\ users'[u].totalCreditPoints = users[u].totalCreditPoints + p
                                /\ users'[u].serviceCapabilities[t].totalCreditsEarned
                                     = users[u].serviceCapabilities[t].totalCreditsEarned + p
                                /\ users'[u].serviceCapabilities[t].completedServices
                                     = users[u].serviceCapabilities[t].completedServices + 1]_vars

\* ------------------------------------------------------------------------
\* JavaScript Numbers of the calculations: exact rationals, Infinity and NaN
\* ------------------------------------------------------------------------
Finite(n, d) == [kind |-> "finite", num |-> n, den |-> d]
Infinity == [kind |-> "Infinity", num |-> 1, den |-> 0]
NaN == [kind |-> "NaN", num |-> 0, den |-> 0]

\* a / b for a >= 0 and b >= 0: x / 0 is Infinity, 0 / 0 is NaN
Divide(a, b) == IF b # 0 THEN Finite(a, b) ELSE IF a = 0 THEN NaN ELSE Infinity

\* x * n for n > 0
Times(x, n) == IF x.kind = "finite" THEN Finite(x.num * n, x.den) ELSE x

\* x >= a: false of NaN, true of Infinity
GreaterOrEqual(x, a) ==
  \/ x.kind = "Infinity"
  \/ x.kind = "finite" /\ x.num >= a * x.den

\* ------------------------------------------------------------------------
\* MonthlyTarget.calculateBonus and calculateTargetBonus (SpecBonus)
\* ------------------------------------------------------------------------
MaxThresholds == 3     \* bonusThresholds entries of a MonthlyTarget
MaxAchieved == 10      \* achieved credit points range over 0..MaxAchieved

TargetValues == {0, 3, 10}           \* targetCreditPoints (MonthlyTarget: min 0)
AchievementValues == {0, 10, 50, 90} \* achievement percentages of thresholds
BonusValues == {50, 200}             \* bonus amounts of thresholds

Threshold == [achievement : AchievementValues, bonusAmount : BonusValues]

RECURSIVE SeqsUpTo(_, _)
SeqsUpTo(S, n) ==
  IF n = 0 THEN {<<>>}
  ELSE LET shorter == SeqsUpTo(S, n - 1)
       IN shorter \cup {Append(q, x) : q \in shorter, x \in S}

Front(q) == SubSeq(q, 1, Len(q) - 1)
Last(q) == q[Len(q)]

\* Array.prototype.sort((a, b) => a.achievement - b.achievement): ascending,
\* entries of equal achievement keep their order
RECURSIVE InsertThreshold(_, _)
InsertThreshold(sorted, x) ==
  IF sorted = <<>> THEN <<x>>
  ELSE IF Last(sorted).achievement <= x.achievement THEN Append(sorted, x)
  ELSE Append(InsertThreshold(Front(sorted), x), Last(sorted))

RECURSIVE SortByAchievement(_)
SortByAchievement(q) ==
  IF q = <<>> THEN <<>> ELSE InsertThreshold(SortByAchievement(Front(q)), Last(q))

\* The loop of calculateBonus from entry k on: bonus is overwritten while the
\* percentage reaches the entry's achievement, and the loop breaks at the
\* first entry it does not reach
RECURSIVE WalkThresholds(_, _, _, _)
WalkThresholds(sorted, percentage, k, bonus) ==
  IF k > Len(sorted) THEN bonus
  ELSE IF GreaterOrEqual(percentage, sorted[k].achievement)
  THEN WalkThresholds(sorted, percentage, k + 1, sorted[k].bonusAmount)
  ELSE bonus

\* Mutant: the thresholds are walked as given, without the sort
WalkOrder_Unsorted(thresholds) == thresholds

\* The thresholds in the order the loop of calculateBonus walks them
WalkOrder(thresholds) == SortByAchievement(thresholds)

\* (achievedPoints / this.targetCreditPoints) * 100
achievementPercentage(target, achieved) == Times(Divide(achieved, target.targetCreditPoints), 100)

\* monthlyTargetSchema.methods.calculateBonus; bonusThresholds is the
\* document's list after the call (sort works in place)
calculateBonus(target, achieved) ==
  LET percentage == achievementPercentage(target, achieved)
      sorted == WalkOrder(target.bonusThresholds)
  IN [achievementPercentage |-> percentage,
      bonus |-> WalkThresholds(sorted, percentage, 1, 0),
      bonusThresholds |-> sorted]

InitBonus ==
  /\ serviceItems = <<>> /\ orderStatus = "none" /\ serviceTypes = <<>> /\ users = <<>>
  /\ last = NotCalled /\ distOk = {} /\ distFailed = {} /\ completedSent = {}
  /\ req = <<>>
  /\ monthlyTarget \in [targetCreditPoints : TargetValues,
                        bonusThresholds : SeqsUpTo(Threshold, MaxThresholds)]
  /\ achievedPoints \in 0..MaxAchieved
  /\ bonusResult = NoResult
  /\ completedServices = <<>>
  /\ metricsResult = NoResult
  /\ NoIncentive

\* IncentiveCalculationService.calculateTargetBonus(performanceMetrics, monthlyTarget)
CalculateTargetBonus ==
  LET r == calculateBonus(monthlyTarget, achievedPoints)
  IN /\ bonusResult = NoResult
     /\ bonusResult' = [called |-> TRUE, bonus |-> r.bonus,
                        achievementPercentage |-> r.achievementPercentage,
                        given |-> monthlyTarget.bonusThresholds]
     /\ monthlyTarget' = [monthlyTarget EXCEPT !.bonusThresholds = r.bonusThresholds]
     /\ UNCHANGED <<orderVars, achievedPoints, completedServices, metricsResult, incentiveVars>>

NextBonus == CalculateTargetBonus

SpecBonus == InitBonus /\ [][NextBonus]_vars

\* The thresholds of the list that the exact percentage 100 * achieved / target
\* reaches (target > 0)
Qualifying(thresholds, target, achieved) ==
  {thresholds[k] : k \in {j \in 1..Len(thresholds) :
                            thresholds[j].achievement * target <= 100 * achieved}}

\* The bonus amounts of the highest thresholds among Q; {0} if Q is empty
HighestFloor(Q) ==
  IF Q = {} THEN {0}
  ELSE {x.bonusAmount : x \in {y \in Q : \A z \in Q : z.achievement <= y.achievement}}

\* C8: for targetCreditPoints > 0, any thresholds in any order and any
\* achieved total, calculateBonus returns the bonusAmount of a threshold with
\* the greatest achievement <= 100 * achieved / targetCreditPoints, and 0 if
\* no threshold qualifies.
C8_HighestQualifyingThreshold ==
  (bonusResult.called /\ monthlyTarget.targetCreditPoints > 0)
  => bonusResult.bonus
       \in HighestFloor(Qualifying(bonusResult.given, monthlyTarget.targetCreditPoints,
                                   achievedPoints))

\* Three thresholds given out of order, 60 percent achieved: the 50 percent
\* threshold is the highest reached and its bonus differs from the others'
C8_Witness ==
  /\ bonusResult.called
  /\ monthlyTarget.targetCreditPoints = 10
  /\ achievedPoints = 6
  /\ bonusResult.given = <<[achievement |-> 90, bonusAmount |-> 50],
                           [achievement |-> 10, bonusAmount |-> 50],
                           [achievement |-> 50, bonusAmount |-> 200]>>
  /\ bonusResult.bonus = 200

\* C9: with targetCreditPoints = 0 the percentage used is zero for every
\* achieved total: the bonus is the one for 0 percent, and no threshold above
\* 0 percent is awarded.
C9_ZeroTargetUsesZeroPercent ==
  (bonusResult.called /\ monthlyTarget.targetCreditPoints = 0)
  => bonusResult.bonus
       \in HighestFloor({bonusResult.given[k] :
                           k \in {j \in 1..Len(bonusResult.given) :
                                    bonusResult.given[j].achievement <= 0}})

\* ------------------------------------------------------------------------
\* IncentiveCalculationService.calculatePerformanceMetrics (SpecMetrics)
\* ------------------------------------------------------------------------
MaxServices == 2       \* orders handed to calculatePerformanceMetrics

Staff == 1             \* the staff member the metrics are calculated for
Colleague == 2         \* another technician

Credited(u, points) == [technician |-> u, creditPoints |-> points, creditsAssigned |-> TRUE]

ServiceItem(t, status, techs) ==
  [serviceType |-> t, status |-> status,
   completionTime |-> IF status = "completed" THEN Now ELSE NoTime,
   technicians |-> techs]

\* The orders (lists of service items, serviceType populated) the staff
\* member's completed services are drawn from
OrderChoices ==
  LET own == ServiceItem("t1", "completed", <<Credited(Staff, 5)>>)
      shared == ServiceItem("t2", "completed", <<Credited(Colleague, 3), Credited(Staff, 3)>>)
      open == ServiceItem("t1", "in_progress", <<Technician(Staff)>>)
      other == ServiceItem("t1", "completed", <<Credited(Colleague, 10)>>)
      uncredited == ServiceItem("t2", "completed", <<Technician(Staff)>>)
  IN {<<own>>, <<shared>>, <<own, open>>, <<other, shared>>, <<uncredited, own>>, <<other>>}

\* The loop body of calculatePerformanceMetrics for one service item
CountItem(metrics, staff, item) ==
  LET k == TechnicianIndex(item.technicians, staff)
      points == IF k = 0 THEN 0 ELSE item.technicians[k].creditPoints
      t == item.serviceType
      known == \E b \in 1..Len(metrics.serviceTypeBreakdown) :
                 metrics.serviceTypeBreakdown[b].serviceType = t
      breakdown ==
        IF known
        THEN [b \in 1..Len(metrics.serviceTypeBreakdown) |->
                IF metrics.serviceTypeBreakdown[b].serviceType = t
                THEN [metrics.serviceTypeBreakdown[b] EXCEPT
                        !.count = @ + 1, !.creditPoints = @ + points]
                ELSE metrics.serviceTypeBreakdown[b]]
        ELSE Append(metrics.serviceTypeBreakdown,
                    [serviceType |-> t, count |-> 1, creditPoints |-> points])
  IN IF k # 0 /\ item.status = "completed"
     THEN [metrics EXCEPT !.totalCreditPoints = @ + points,
                          !.completedServices = @ + 1,
                          !.serviceTypeBreakdown = breakdown]
     ELSE metrics

\* The loops over the orders from order o, item i on
RECURSIVE CountServices(_, _, _, _, _)
CountServices(metrics, staff, services, o, i) ==
  IF o > Len(services) THEN metrics
  ELSE IF i > Len(services[o]) THEN CountServices(metrics, staff, services, o + 1, 1)
  ELSE CountServices(CountItem(metrics, staff, services[o][i]), staff, services, o, i + 1)

\* Mutant: the percentage is calculated whatever the target
HasTarget_Unguarded(target) == TRUE

\* monthlyTarget && monthlyTarget.targetCreditPoints > 0
HasTarget(target) == target.targetCreditPoints > 0

calculatePerformanceMetrics(staff, services, target) ==
  LET metrics == CountServices([totalCreditPoints |-> 0, completedServices |-> 0,
                                targetAchievementPercentage |-> Finite(0, 1),
                                serviceTypeBreakdown |-> <<>>],
                               staff, services, 1, 1)
  IN IF HasTarget(target)
     THEN [metrics EXCEPT !.targetAchievementPercentage =
             Times(Divide(metrics.totalCreditPoints, target.targetCreditPoints), 100)]
     ELSE metrics

InitMetrics ==
  /\ serviceItems = <<>> /\ orderStatus = "none" /\ serviceTypes = <<>> /\ users = <<>>
  /\ last = NotCalled /\ distOk = {} /\ distFailed = {} /\ completedSent = {}
  /\ req = <<>>
  /\ monthlyTarget \in [targetCreditPoints : TargetValues, bonusThresholds : {<<>>}]
  /\ achievedPoints = 0
  /\ bonusResult = NoResult
  /\ completedServices \in SeqsUpTo(OrderChoices, MaxServices)
  /\ metricsResult = NoResult
  /\ NoIncentive

CalculatePerformanceMetrics ==
  /\ metricsResult = NoResult
  /\ metricsResult' = [called |-> TRUE,
                       metrics |-> calculatePerformanceMetrics(Staff, completedServices,
                                                               monthlyTarget)]
  /\ UNCHANGED <<orderVars, monthlyTarget, achievedPoints, bonusResult, completedServices,
                 incentiveVars>>

NextMetrics == CalculatePerformanceMetrics

SpecMetrics == InitMetrics /\ [][NextMetrics]_vars

\* C10: calculatePerformanceMetrics returns targetAchievementPercentage =
\* 100 * totalCreditPoints / targetCreditPoints when targetCreditPoints > 0
\* and exactly 0 when it is 0; it never divides by zero.
C10_AchievementPercentage ==
  metricsResult.called
  => LET m == metricsResult.metrics
         pct == m.targetAchievementPercentage
         target == monthlyTarget.targetCreditPoints
     IN /\ pct.kind = "finite"
        /\ pct.den # 0
        /\ target > 0 => pct.num * target = 100 * m.totalCreditPoints * pct.den
        /\ target = 0 => pct.num = 0

\* Metrics with credit points were calculated against a target of zero
C10_Witness ==
  /\ metricsResult.called
  /\ monthlyTarget.targetCreditPoints = 0
  /\ metricsResult.metrics.totalCreditPoints = 8
  /\ metricsResult.metrics.completedServices = 3
  /\ metricsResult.metrics.targetAchievementPercentage = Finite(0, 1)

\* ------------------------------------------------------------------------
\* Properties of concurrent distribution (checked under SpecConc)
\* ------------------------------------------------------------------------
\* The share of item i for staff member u: pointsPerTechnician of the item if
\* u is one of its technicians and its service type exists
Share(i, u) ==
  LET item == serviceItems[i]
  IN IF IsAssigned(item.technicians, u) /\ serviceTypes[item.serviceType].exists
     THEN serviceTypes[item.serviceType].creditPoints \div Len(item.technicians)
     ELSE 0

RECURSIVE SumShares(_, _)
SumShares(u, i) == IF i > NumItems THEN 0 ELSE Share(i, u) + SumShares(u, i + 1)

\* C3: with two update requests for the same item interleaved, no staff
\* member's lifetime total grows by more than one share per item.
C3_NoDoubleCredit ==
  \A u \in UserIds : users[u].totalCreditPoints <= SumShares(u, 1)

\* ------------------------------------------------------------------------
\* JavaScript Number arithmetic of the formula evaluation
\* ------------------------------------------------------------------------
NegInfinity == [kind |-> "-Infinity", num |-> -1, den |-> 0]

Number(n) == Finite(n, 1)

\* -1, 0 or 1
Sign(x) == IF x.num > 0 THEN 1 ELSE IF x.num < 0 THEN -1 ELSE 0

SignedInfinity(s) == IF s > 0 THEN Infinity ELSE NegInfinity

IsNegative(x) == x.kind # "NaN" /\ x.num < 0

\* x === y for Numbers that are not NaN
NumEq(x, y) ==
  /\ x.kind = y.kind
  /\ x.kind # "NaN"
  /\ x.kind = "finite" => x.num * y.den = y.num * x.den

JsNeg(x) ==
  IF x.kind = "finite" THEN Finite(0 - x.num, x.den)
  ELSE IF x.kind = "Infinity" THEN NegInfinity
  ELSE IF x.kind = "-Infinity" THEN Infinity
  ELSE NaN

JsAdd(x, y) ==
  IF x.kind = "NaN" \/ y.kind = "NaN" THEN NaN
  ELSE IF x.kind = "finite" /\ y.kind = "finite"
  THEN Finite(x.num * y.den + y.num * x.den, x.den * y.den)
  ELSE IF x.kind = "finite" THEN y
  ELSE IF y.kind = "finite" THEN x
  ELSE IF x.kind = y.kind THEN x
  ELSE NaN

JsSub(x, y) == JsAdd(x, JsNeg(y))

JsMul(x, y) ==
  IF x.kind = "NaN" \/ y.kind = "NaN" THEN NaN
  ELSE IF x.kind = "finite" /\ y.kind = "finite" THEN Finite(x.num * y.num, x.den * y.den)
  ELSE IF Sign(x) = 0 \/ Sign(y) = 0 THEN NaN
  ELSE SignedInfinity(Sign(x) * Sign(y))

\* the sign of zero is not kept: a zero divisor counts as +0
JsDiv(x, y) ==
  IF x.kind = "NaN" \/ y.kind = "NaN" THEN NaN
  ELSE IF x.kind = "finite" /\ y.kind = "finite"
  THEN IF y.num = 0
       THEN (IF x.num = 0 THEN NaN ELSE SignedInfinity(Sign(x)))
       ELSE Finite(x.num * y.den * Sign(y), x.den * y.num * Sign(y))
  ELSE IF x.kind = "finite" THEN Number(0)
  ELSE IF y.kind = "finite" THEN SignedInfinity(Sign(x) * (IF Sign(y) < 0 THEN -1 ELSE 1))
  ELSE NaN

\* Math.max(0, x)
MathMax0(x) ==
  IF x.kind = "NaN" THEN NaN
  ELSE IF x.num < 0 THEN Number(0)
  ELSE x

\* ------------------------------------------------------------------------
\* Dates: instants are counted in ticks from the first day of EpochYear
\* ------------------------------------------------------------------------
TicksPerDay == 2        \* instants of a day that the model tells apart
EpochYear == 2024

IsLeapYear(y) == (y % 4 = 0 /\ y % 100 # 0) \/ y % 400 = 0

DaysInMonth(y, m) ==
  IF m = 2 THEN (IF IsLeapYear(y) THEN 29 ELSE 28)
  ELSE IF m \in {4, 6, 9, 11} THEN 30
  ELSE 31

\* days of the months 1..m of year y
RECURSIVE DaysOfMonths(_, _)
DaysOfMonths(y, m) == IF m <= 0 THEN 0 ELSE DaysInMonth(y, m) + DaysOfMonths(y, m - 1)

\* days of the years EpochYear..(y - 1)
RECURSIVE DaysBeforeYear(_)
DaysBeforeYear(y) ==
  IF y <= EpochYear THEN 0 ELSE DaysOfMonths(y - 1, 12) + DaysBeforeYear(y - 1)

\* new Date(year, monthIndex, day): local midnight; monthIndex counts from 0,
\* day 0 is the day before the first of that month
DateOf(year, monthIndex, day) ==
  (DaysBeforeYear(year) + DaysOfMonths(year, monthIndex) + day - 1) * TicksPerDay + 1

\* const startDate = new Date(year, month - 1, 1)
startDate(month, year) == DateOf(year, month - 1, 1)

\* const endDate = new Date(year, month, 0)
endDate(month, year) == DateOf(year, month, 0)

\* ------------------------------------------------------------------------
\* getStaffCompletedServices: the Service.find query
\* ------------------------------------------------------------------------
\* The filter of Service.find on one order.  Each condition on a path through
\* the serviceItems array holds if some item satisfies it; the items need not
\* be the same, and neither for the two bounds of the completionTime range.
MatchesQuery(order, staffId, from, to) ==
  /\ \E i \in 1..Len(order) : IsAssigned(order[i].technicians, staffId)
  /\ \E i \in 1..Len(order) : order[i].status = "completed"
  /\ \E i \in 1..Len(order) : order[i].completionTime # NoTime /\ order[i].completionTime >= from
  /\ \E i \in 1..Len(order) : order[i].completionTime # NoTime /\ order[i].completionTime <= to

RECURSIVE FindServices(_, _, _, _, _)
FindServices(services, staffId, from, to, k) ==
  IF k > Len(services) THEN <<>>
  ELSE IF MatchesQuery(services[k], staffId, from, to)
  THEN <<services[k]>> \o FindServices(services, staffId, from, to, k + 1)
  ELSE FindServices(services, staffId, from, to, k + 1)

getStaffCompletedServices(services, staffId, from, to) ==
  FindServices(services, staffId, from, to, 1)

\* ------------------------------------------------------------------------
\* calculateServiceTypeBonus
\* ------------------------------------------------------------------------
NoRef == "none"     \* a reference field that is not set (undefined)

\* list.find(x => x.serviceType.toString() === t) from entry k on: the index
\* found (0: undefined), or threw when an entry without serviceType is reached
RECURSIVE FindByServiceType(_, _, _)
FindByServiceType(list, t, k) ==
  IF k > Len(list) THEN [threw |-> FALSE, index |-> 0]
  ELSE IF list[k].serviceType = NoRef THEN [threw |-> TRUE, index |-> 0]
  ELSE IF list[k].serviceType = t THEN [threw |-> FALSE, index |-> k]
  ELSE FindByServiceType(list, t, k + 1)

\* multiplierInfo ? multiplierInfo.multiplier : 1.0
MultiplierOf(policy, found) ==
  IF found = 0 THEN 1 ELSE policy.serviceTypeMultipliers[found].multiplier

\* The loop of calculateServiceTypeBonus from breakdown entry k on
RECURSIVE TypeBonusFrom(_, _, _, _, _)
TypeBonusFrom(breakdown, targets, policy, k, bonus) ==
  IF k > Len(breakdown) THEN [threw |-> FALSE, bonus |-> bonus]
  ELSE LET entry == breakdown[k]
           target == FindByServiceType(targets, entry.serviceType, 1)
       IN IF target.threw THEN [threw |-> TRUE, bonus |-> bonus]
          ELSE IF target.index # 0 /\ entry.count > targets[target.index].targetCount
          THEN LET excess == entry.count - targets[target.index].targetCount
                   serviceTypeBonus == excess * targets[target.index].bonusPerExcess
                   multiplierInfo == FindByServiceType(policy.serviceTypeMultipliers,
                                                       entry.serviceType, 1)
               IN IF multiplierInfo.threw THEN [threw |-> TRUE, bonus |-> bonus]
                  ELSE TypeBonusFrom(breakdown, targets, policy, k + 1,
                                     bonus + serviceTypeBonus
                                               * MultiplierOf(policy, multiplierInfo.index))
          ELSE TypeBonusFrom(breakdown, targets, policy, k + 1, bonus)

\* try { ... return bonus } catch { return 0 }
calculateServiceTypeBonus(serviceTypeBreakdown, serviceTypeTargets, policy) ==
  LET r == TypeBonusFrom(serviceTypeBreakdown, serviceTypeTargets, policy, 1, 0)
  IN IF r.threw THEN 0 ELSE r.bonus

\* ------------------------------------------------------------------------
\* calculateBaseIncentive: mathjs.evaluate(formula, scope)
\* ------------------------------------------------------------------------
\* A formulaDefinition is kept as the expression tree mathjs parses it to;
\* Malformed is a string that mathjs cannot parse.
Var(name) == [op |-> "var", name |-> name]
Num(v) == [op |-> "num", value |-> v]
Bin(op, l, r) == [op |-> op, left |-> l, right |-> r]
Malformed == [op |-> "malformed"]

Threw == [kind |-> "error"]

\* mathjs.evaluate: throws on a parse error and on a symbol that the scope
\* does not define
RECURSIVE Evaluate(_, _)
Evaluate(f, scope) ==
  IF f.op = "malformed" THEN Threw
  ELSE IF f.op = "num" THEN Number(f.value)
  ELSE IF f.op = "var" THEN (IF f.name \in DOMAIN scope THEN scope[f.name] ELSE Threw)
  ELSE LET l == Evaluate(f.left, scope)
           r == Evaluate(f.right, scope)
       IN IF l = Threw \/ r = Threw THEN Threw
          ELSE IF f.op = "add" THEN JsAdd(l, r)
          ELSE IF f.op = "sub" THEN JsSub(l, r)
          ELSE IF f.op = "mul" THEN JsMul(l, r)
          ELSE JsDiv(l, r)

\* Mutant: the formula value is returned as it is
FloorAtZero_None(result) == result

\* Math.max(0, result)
FloorAtZero(result) == MathMax0(result)

\* Mutant: an evaluation error is not caught
OnFormulaError_Propagate(result) == result

\* catch (error) { return 0 }
OnFormulaError(result) == Number(0)

calculateBaseIncentive(variables, policy) ==
  LET result == Evaluate(policy.formulaDefinition, variables)
  IN IF result = Threw THEN OnFormulaError(result) ELSE FloorAtZero(result)

\* ------------------------------------------------------------------------
\* calculateStaffIncentive
\* ------------------------------------------------------------------------
\* MonthlyTarget.findOne({month, year, category}): index of the first match, 0 if none
FindTarget(targets, month, year, categoryId) ==
  LET matches == {k \in 1..Len(targets) : /\ targets[k].month = month
                                          /\ targets[k].year = year
                                          /\ targets[k].category = categoryId}
  IN IF matches = {} THEN 0 ELSE CHOOSE k \in matches : \A j \in matches : k <= j

\* incentivePolicySchema.methods.isApplicableTo
isApplicableTo(policy, categoryId) ==
  \E k \in 1..Len(policy.applicableCategories) : policy.applicableCategories[k] = categoryId

\* Mutant: the monthly target is looked up before the policy is checked
FailedPrecondition_TargetFirst(db, targets, args) ==
  IF args.staffId \notin db.staff THEN "Staff member not found"
  ELSE IF args.categoryId \notin DOMAIN db.categories THEN "Staff category not found"
  ELSE IF FindTarget(targets, args.month, args.year, args.categoryId) = 0
  THEN "No monthly target found"
  ELSE IF args.policyId \notin DOMAIN db.policies THEN "Incentive policy not found"
  ELSE IF ~isApplicableTo(db.policies[args.policyId], args.categoryId)
  THEN "The selected policy is not applicable to this staff category"
  ELSE "none"

\* The checks of calculateStaffIncentive before it reads the services: the
\* message of the Error thrown, "none" if every check passes
FailedPrecondition(db, targets, args) ==
  IF args.staffId \notin db.staff THEN "Staff member not found"
  ELSE IF args.categoryId \notin DOMAIN db.categories THEN "Staff category not found"
  ELSE IF args.policyId \notin DOMAIN db.policies THEN "Incentive policy not found"
  ELSE IF ~isApplicableTo(db.policies[args.policyId], args.categoryId)
  THEN "The selected policy is not applicable to this staff category"
  ELSE IF FindTarget(targets, args.month, args.year, args.categoryId) = 0
  THEN "No monthly target found"
  ELSE "none"

\* { baseSalary: ..., ...options.variables }
FormulaVariables(category, metrics, target, options) ==
  LET own == [baseSalary |-> Number(category.baseSalary),
              baseIncentiveRate |-> Number(category.baseIncentiveRate),
              totalCreditPoints |-> Number(metrics.totalCreditPoints),
              completedServices |-> Number(metrics.completedServices),
              targetAchievementPercentage |-> metrics.targetAchievementPercentage,
              targetCreditPoints |-> Number(target.targetCreditPoints),
              targetCompletedServices |-> Number(target.targetCompletedServices)]
  IN [n \in DOMAIN own \cup DOMAIN options.variables |->
        IF n \in DOMAIN options.variables THEN Number(options.variables[n]) ELSE own[n]]

\* Mutant: a failed check does not throw; the record is returned with the
\* incentive left unset
calculateStaffIncentive_Partial(db, targets, args) ==
  [threw |-> FALSE, error |-> "", servicesRead |-> FALSE,
   record |-> [staff |-> args.staffId, month |-> args.month, year |-> args.year,
               staffCategory |-> args.categoryId, baseSalary |-> 0,
               performanceMetrics |-> <<>>,
               incentiveBreakdown |-> [baseIncentive |-> Number(0), targetBonus |-> 0,
                                       serviceTypeBonus |-> 0, specialBonus |-> 0,
                                       deductions |-> 0],
               incentivePolicy |-> args.policyId]]

\* The call on the collections db (staff, categories, policies, services) and
\* the MonthlyTarget collection: threw with the error's message, or the result
\* object; servicesRead tells whether getStaffCompletedServices was called
calculateStaffIncentive(db, targets, args) ==
  LET failed == FailedPrecondition(db, targets, args)
  IN IF failed # "none"
     THEN [threw |-> TRUE, error |-> failed, servicesRead |-> FALSE, record |-> <<>>]
     ELSE LET category == db.categories[args.categoryId]
              policy == db.policies[args.policyId]
              theTarget == targets[FindTarget(targets, args.month, args.year,
                                                  args.categoryId)]
              completed == getStaffCompletedServices(db.services, args.staffId,
                                                     startDate(args.month, args.year),
                                                     endDate(args.month, args.year))
              performanceMetrics == calculatePerformanceMetrics(args.staffId, completed,
                                                                theTarget)
              variables == FormulaVariables(category, performanceMetrics, theTarget,
                                            args.options)
              incentiveBreakdown ==
                [baseIncentive |-> calculateBaseIncentive(variables, policy),
                 targetBonus |-> calculateBonus(theTarget,
                                                performanceMetrics.totalCreditPoints).bonus,
                 serviceTypeBonus |->
                   calculateServiceTypeBonus(performanceMetrics.serviceTypeBreakdown,
                                             theTarget.serviceTypeTargets, policy),
                 specialBonus |-> args.options.specialBonus,
                 deductions |-> args.options.deductions]
          IN [threw |-> FALSE, error |-> "", servicesRead |-> TRUE,
              record |-> [staff |-> args.staffId,
                          month |-> args.month,
                          year |-> args.year,
                          staffCategory |-> args.categoryId,
                          baseSalary |-> category.baseSalary,
                          performanceMetrics |-> performanceMetrics,
                          incentiveBreakdown |-> incentiveBreakdown,
                          incentivePolicy |-> args.policyId]]

\* One call of calculateStaffIncentive on the collections
CalculateStaffIncentive ==
  /\ incentiveResult = NoResult
  /\ incentiveResult' = [called |-> TRUE,
                         outcome |-> calculateStaffIncentive(incentiveDb, monthlyTargets,
                                                             incentiveArgs)]
  /\ UNCHANGED <<orderVars, calcVars, incentiveDb, incentiveArgs, monthlySalaries,
                 monthlyTargets, saveCalls, response>>

NextIncentive == CalculateStaffIncentive

\* The variables of the other specifications where an incentive is calculated
NoOrders ==
  /\ serviceItems = <<>> /\ orderStatus = "none" /\ serviceTypes = <<>> /\ users = <<>>
  /\ last = NotCalled /\ distOk = {} /\ distFailed = {} /\ completedSent = {}
  /\ req = <<>>

\* ------------------------------------------------------------------------
\* SpecSelect: the service items calculateStaffIncentive counts for a month
\* ------------------------------------------------------------------------
MaxOrderItems == 2     \* service items of the order in the Service collection

Months == {2, 12}
Years == {EpochYear}
CategoryIds == {"c1", "c2"}
PolicyIds == {"p1", "p2"}

NoOptions == [variables |-> <<>>, specialBonus |-> 0, deductions |-> 0]

\* A policy with the formula baseSalary * baseIncentiveRate
PlainPolicy ==
  [formulaDefinition |-> Bin("mul", Var("baseSalary"), Var("baseIncentiveRate")),
   variables |-> <<>>,
   applicableCategories |-> <<"c1">>,
   serviceTypeMultipliers |-> <<>>]

PlainCategory == [baseSalary |-> 100, baseIncentiveRate |-> 2]

PlainTarget(month, year) ==
  [month |-> month, year |-> year, category |-> "c1",
   targetCreditPoints |-> 10, targetCompletedServices |-> 2,
   bonusThresholds |-> <<[achievement |-> 50, bonusAmount |-> 200]>>,
   serviceTypeTargets |-> <<>>]

\* completionTime values around the month: none, the last instant before it,
\* its first instant, midnight and the later instants of its last day, and the
\* first instant after it
TimeChoices(month, year) ==
  {NoTime, DateOf(year, month - 1, 1) - 1, DateOf(year, month - 1, 1)}
    \cup {DateOf(year, month, 0) + t : t \in 0..TicksPerDay}

ItemChoices(month, year) ==
  {[serviceType |-> "t1", status |-> st, completionTime |-> ct,
    technicians |-> <<Credited(u, 5)>>] :
     st \in {"completed", "in_progress"}, ct \in TimeChoices(month, year),
     u \in {Staff, Colleague}}

InitSelect ==
  /\ NoOrders
  /\ NoCalculation
  /\ \E m \in Months, y \in Years :
       /\ incentiveArgs = [staffId |-> Staff, month |-> m, year |-> y, categoryId |-> "c1",
                           policyId |-> "p1", options |-> NoOptions]
       /\ monthlyTargets = <<PlainTarget(m, y)>>
       /\ \E order \in SeqsUpTo(ItemChoices(m, y), MaxOrderItems) \ {<<>>} :
            incentiveDb = [staff |-> {Staff, Colleague},
                           categories |-> [c \in {"c1"} |-> PlainCategory],
                           policies |-> [p \in {"p1"} |-> PlainPolicy],
                           services |-> <<order>>]
  /\ incentiveResult = NoResult
  /\ monthlySalaries = <<>>
  /\ saveCalls = <<>>
  /\ response = NoResponse

SpecSelect == InitSelect /\ [][NextIncentive]_vars

\* The items of the Service collection that have the staff member among
\* their technicians, status completed and a completionTime in from..to
ItemsOf(staffId, from, to) ==
  {<<o, i>> \in (1..Len(incentiveDb.services)) \X (1..MaxOrderItems) :
     /\ i <= Len(incentiveDb.services[o])
     /\ LET item == incentiveDb.services[o][i]
        IN /\ IsAssigned(item.technicians, staffId)
           /\ item.status = "completed"
           /\ item.completionTime # NoTime
           /\ item.completionTime >= from
           /\ item.completionTime <= to}

\* C11: the metrics count exactly the items that themselves have the staff
\* member as technician, status completed and a completionTime inside the
\* period the calculation uses; an item completed outside it is not counted,
\* whatever else its order contains.
C11_CountsOnlyItemsInPeriod ==
  (incentiveResult.called /\ ~incentiveResult.outcome.threw)
  => incentiveResult.outcome.record.performanceMetrics.completedServices
       = Cardinality(ItemsOf(incentiveArgs.staffId,
                             startDate(incentiveArgs.month, incentiveArgs.year),
                             endDate(incentiveArgs.month, incentiveArgs.year)))

\* C12: every item of the staff member completed between the first and the
\* last instant of the calendar month, the last day included, is counted in
\* that month's metrics.
C12_PeriodCoversLastDay ==
  (incentiveResult.called /\ ~incentiveResult.outcome.threw)
  => incentiveResult.outcome.record.performanceMetrics.completedServices
       >= Cardinality(ItemsOf(incentiveArgs.staffId,
                              DateOf(incentiveArgs.year, incentiveArgs.month - 1, 1),
                              DateOf(incentiveArgs.year, incentiveArgs.month, 1) - 1))

\* ------------------------------------------------------------------------
\* SpecTypeBonus: calculateServiceTypeBonus on breakdowns, targets and multipliers
\* ------------------------------------------------------------------------
MaxTypeTargets == 2    \* serviceTypeTargets entries of a MonthlyTarget

\* serviceTypeBreakdown lists as calculatePerformanceMetrics builds them: one
\* entry per service type, each with a count of at least 1
BreakdownChoices ==
  LET entry(t, n) == [serviceType |-> t, count |-> n, creditPoints |-> 0]
      counts == {1, 3}
  IN {<<>>}
       \cup {<<entry(t, n)>> : t \in TypeIds, n \in counts}
       \cup {<<entry(t, n), entry(u, m)>> : <<t, u>> \in {<<"t1", "t2">>, <<"t2", "t1">>},
                                            <<n, m>> \in counts \X counts}

TypeTargetChoices ==
  [serviceType : TypeIds \cup {NoRef}, targetCount : {0, 2}, bonusPerExcess : {10}]

MultiplierChoices ==
  {<<>>} \cup {<<[serviceType |-> t, multiplier |-> 3]>> : t \in TypeIds \cup {NoRef}}

InitTypeBonus ==
  /\ NoOrders
  /\ NoCalculation
  /\ incentiveDb = <<>>
  /\ incentiveArgs \in [serviceTypeBreakdown : BreakdownChoices,
                        serviceTypeTargets : SeqsUpTo(TypeTargetChoices, MaxTypeTargets),
                        serviceTypeMultipliers : MultiplierChoices]
  /\ incentiveResult = NoResult
  /\ monthlySalaries = <<>>
  /\ monthlyTargets = <<>>
  /\ saveCalls = <<>>
  /\ response = NoResponse

\* IncentiveCalculationService.calculateServiceTypeBonus(breakdown, targets, policy)
CalculateServiceTypeBonus ==
  /\ incentiveResult = NoResult
  /\ incentiveResult' =
       [called |-> TRUE,
        bonus |-> calculateServiceTypeBonus(
                    incentiveArgs.serviceTypeBreakdown,
                    incentiveArgs.serviceTypeTargets,
                    [serviceTypeMultipliers |-> incentiveArgs.serviceTypeMultipliers])]
  /\ UNCHANGED <<orderVars, calcVars, incentiveDb, incentiveArgs, monthlySalaries,
                 monthlyTargets, saveCalls, response>>

NextTypeBonus == CalculateServiceTypeBonus

SpecTypeBonus == InitTypeBonus /\ [][NextTypeBonus]_vars

\* The first entry of the list for service type t; 0 if it has none
FirstFor(list, t) ==
  LET matches == {k \in 1..Len(list) : list[k].serviceType = t}
  IN IF matches = {} THEN 0 ELSE CHOOSE k \in matches : \A j \in matches : k <= j

\* What the breakdown entry contributes by the rule: (count - targetCount)
\* * bonusPerExcess * multiplier if it has a target and exceeds it, 0 otherwise
Contribution(entry, targets, multipliers) ==
  LET k == FirstFor(targets, entry.serviceType)
      m == FirstFor(multipliers, entry.serviceType)
  IN IF k # 0 /\ entry.count > targets[k].targetCount
     THEN (entry.count - targets[k].targetCount) * targets[k].bonusPerExcess
            * (IF m = 0 THEN 1 ELSE multipliers[m].multiplier)
     ELSE 0

RECURSIVE SumContributions(_, _, _, _)
SumContributions(breakdown, targets, multipliers, k) ==
  IF k > Len(breakdown) THEN 0
  ELSE Contribution(breakdown[k], targets, multipliers)
         + SumContributions(breakdown, targets, multipliers, k + 1)

\* C13: calculateServiceTypeBonus returns the sum over the breakdown entries
\* of (count - targetCount) * bonusPerExcess * multiplier for the entries that
\* have a target for their service type and exceed it (multiplier 1 when the
\* policy has none for the type); the other entries contribute zero.
C13_SumOfExcessBonuses ==
  incentiveResult.called
  => incentiveResult.bonus
       = SumContributions(incentiveArgs.serviceTypeBreakdown, incentiveArgs.serviceTypeTargets,
                          incentiveArgs.serviceTypeMultipliers, 1)

\* ------------------------------------------------------------------------
\* SpecFormula: calculateStaffIncentive on policies with different formulas
\* ------------------------------------------------------------------------
FormulaChoices ==
  {Bin("mul", Var("baseSalary"), Var("baseIncentiveRate")),
   Bin("sub", Var("totalCreditPoints"), Var("targetCreditPoints")),
   Bin("div", Var("totalCreditPoints"), Var("targetCreditPoints")),
   Bin("add", Var("baseSalary"), Bin("mul", Var("totalCreditPoints"), Var("bonusRate"))),
   Bin("sub", Num(0), Bin("div", Var("baseSalary"), Var("targetCreditPoints"))),
   Malformed}

\* policy.variables: the variables the policy declares, with their defaults
DeclaredChoices == {<<>>, <<[name |-> "bonusRate", defaultValue |-> 2]>>}

\* options.variables
CustomChoices == {<<>>, [n \in {"bonusRate"} |-> 3]}

\* An order of the month with one completed item of the staff member
OrderInMonth(month, year) ==
  <<[serviceType |-> "t1", status |-> "completed",
     completionTime |-> startDate(month, year),
     technicians |-> <<Credited(Staff, 5)>>]>>

InitFormula ==
  /\ NoOrders
  /\ NoCalculation
  /\ incentiveArgs \in {[staffId |-> Staff, month |-> 2, year |-> EpochYear,
                         categoryId |-> "c1", policyId |-> "p1",
                         options |-> [NoOptions EXCEPT !.variables = custom]] :
                          custom \in CustomChoices}
  /\ \E points \in {0, 10} :
       monthlyTargets = <<[PlainTarget(2, EpochYear) EXCEPT
                             !.targetCreditPoints = points,
                             !.serviceTypeTargets =
                                <<[serviceType |-> "t1", targetCount |-> 0,
                                   bonusPerExcess |-> 10]>>]>>
  /\ \E formula \in FormulaChoices, declared \in DeclaredChoices, salary \in {0, 100},
        services \in {<<>>, <<OrderInMonth(2, EpochYear)>>} :
       incentiveDb = [staff |-> {Staff},
                      categories |-> [c \in {"c1"} |-> [PlainCategory EXCEPT
                                                          !.baseSalary = salary]],
                      policies |-> [p \in {"p1"} |->
                                      [PlainPolicy EXCEPT !.formulaDefinition = formula,
                                                          !.variables = declared]],
                      services |-> services]
  /\ incentiveResult = NoResult
  /\ monthlySalaries = <<>>
  /\ saveCalls = <<>>
  /\ response = NoResponse

SpecFormula == InitFormula /\ [][NextIncentive]_vars

\* The names a formula refers to
RECURSIVE Symbols(_)
Symbols(f) ==
  IF f.op \in {"malformed", "num"} THEN {}
  ELSE IF f.op = "var" THEN {f.name}
  ELSE Symbols(f.left) \cup Symbols(f.right)

\* The names calculateStaffIncentive puts into the scope
ScopeNames ==
  {"baseSalary", "baseIncentiveRate", "totalCreditPoints", "completedServices",
   "targetAchievementPercentage", "targetCreditPoints", "targetCompletedServices"}
    \cup DOMAIN incentiveArgs.options.variables

ThePolicy == incentiveDb.policies[incentiveArgs.policyId]

\* The scope of the call that has returned the record
TheScope ==
  LET record == incentiveResult.outcome.record
  IN FormulaVariables(incentiveDb.categories[incentiveArgs.categoryId],
                      record.performanceMetrics,
                      monthlyTargets[FindTarget(monthlyTargets, incentiveArgs.month,
                                                incentiveArgs.year, incentiveArgs.categoryId)],
                      incentiveArgs.options)

\* The scope with the policy's declared default for every declared name that
\* the scope lacks
ScopeWithDefaults ==
  LET declared == ThePolicy.variables
      names == {declared[k].name : k \in 1..Len(declared)}
      default(n) == declared[CHOOSE k \in 1..Len(declared) : declared[k].name = n].defaultValue
  IN [n \in DOMAIN TheScope \cup names |->
        IF n \in DOMAIN TheScope THEN TheScope[n] ELSE Number(default(n))]

\* Equal Numbers, NaN counting as equal to NaN
SameNumber(x, y) == (x.kind = "NaN" /\ y.kind = "NaN") \/ NumEq(x, y)

Returned == incentiveResult.called /\ ~incentiveResult.outcome.threw

\* C14: when the formula parses and every name it refers to is in the scope
\* or has a default declared by the policy, the base incentive is the formula
\* value (floored at zero) with the declared defaults standing in for the
\* names the scope lacks.
C14_AbsentVariableUsesDefault ==
  (/\ Returned
   /\ ThePolicy.formulaDefinition # Malformed
   /\ Symbols(ThePolicy.formulaDefinition) \subseteq DOMAIN ScopeWithDefaults)
  => SameNumber(incentiveResult.outcome.record.incentiveBreakdown.baseIncentive,
                MathMax0(Evaluate(ThePolicy.formulaDefinition, ScopeWithDefaults)))

\* The same call for a policy whose formula is the constant 1
ReferenceOutcome ==
  calculateStaffIncentive(
    [incentiveDb EXCEPT !.policies[incentiveArgs.policyId].formulaDefinition = Num(1)],
    monthlyTargets, incentiveArgs)

\* C15: when the formula cannot be parsed or refers to a name the scope
\* lacks, calculateStaffIncentive still returns a record, with baseIncentive
\* 0 and with the targetBonus and serviceTypeBonus that a policy with a
\* working formula gets.
C15_FormulaFailureYieldsZero ==
  (/\ incentiveResult.called
   /\ FailedPrecondition(incentiveDb, monthlyTargets, incentiveArgs) = "none"
   /\ \/ ThePolicy.formulaDefinition = Malformed
      \/ ~(Symbols(ThePolicy.formulaDefinition) \subseteq ScopeNames))
  => /\ ~incentiveResult.outcome.threw
     /\ LET breakdown == incentiveResult.outcome.record.incentiveBreakdown
            reference == ReferenceOutcome.record.incentiveBreakdown
        IN /\ breakdown.baseIncentive = Number(0)
           /\ breakdown.targetBonus = reference.targetBonus
           /\ breakdown.serviceTypeBonus = reference.serviceTypeBonus

\* A record was returned for an unparsable formula, with both bonuses earned
C15_Witness ==
  /\ Returned
  /\ ThePolicy.formulaDefinition = Malformed
  /\ LET breakdown == incentiveResult.outcome.record.incentiveBreakdown
     IN /\ breakdown.baseIncentive = Number(0)
        /\ breakdown.targetBonus = 200
        /\ breakdown.serviceTypeBonus = 10

\* C16: the baseIncentive of a returned record is never negative; where the
\* formula has a value v it is v if v >= 0, 0 if v < 0 (and NaN if v is NaN).
C16_BaseIncentiveFlooredAtZero ==
  Returned
  => LET base == incentiveResult.outcome.record.incentiveBreakdown.baseIncentive
         v == Evaluate(ThePolicy.formulaDefinition, TheScope)
     IN /\ base \in {NaN, Infinity} \/ (base.kind = "finite" /\ base.den > 0 /\ base.num >= 0)
        /\ v # Threw
             => /\ v.kind = "NaN" => base = NaN
                /\ IsNegative(v) => base = Number(0)
                /\ (v.kind # "NaN" /\ ~IsNegative(v)) => base = v

\* The formula totalCreditPoints - targetCreditPoints had a negative value
\* and the record's baseIncentive is 0
C16_Witness ==
  /\ Returned
  /\ ThePolicy.formulaDefinition
       = Bin("sub", Var("totalCreditPoints"), Var("targetCreditPoints"))
  /\ IsNegative(Evaluate(ThePolicy.formulaDefinition, TheScope))
  /\ incentiveResult.outcome.record.incentiveBreakdown.baseIncentive = Number(0)

\* ------------------------------------------------------------------------
\* SpecPrecondition: calculateStaffIncentive on collections with documents missing
\* ------------------------------------------------------------------------
ApplicableChoices == {<<>>, <<"c1">>, <<"c2">>, <<"c2", "c1">>}

\* MonthlyTarget collections: none, one for the month and a category, one for
\* another month
TargetCollections ==
  {<<>>, <<[PlainTarget(3, EpochYear) EXCEPT !.category = "c1"]>>}
    \cup {<<[PlainTarget(2, EpochYear) EXCEPT !.category = c]>> : c \in CategoryIds}

InitPrecondition ==
  /\ NoOrders
  /\ NoCalculation
  /\ incentiveArgs \in {[staffId |-> Staff, month |-> 2, year |-> EpochYear,
                         categoryId |-> c, policyId |-> p, options |-> NoOptions] :
                          c \in CategoryIds, p \in PolicyIds}
  /\ monthlyTargets \in TargetCollections
  /\ \E staff \in SUBSET {Staff}, categories \in SUBSET CategoryIds,
        policies \in SUBSET PolicyIds, applicable \in ApplicableChoices :
       incentiveDb = [staff |-> staff,
                      categories |-> [c \in categories |-> PlainCategory],
                      policies |-> [p \in policies |->
                                      [PlainPolicy EXCEPT !.applicableCategories = applicable]],
                      services |-> <<OrderInMonth(2, EpochYear)>>]
  /\ incentiveResult = NoResult
  /\ monthlySalaries = <<>>
  /\ saveCalls = <<>>
  /\ response = NoResponse

SpecPrecondition == InitPrecondition /\ [][NextIncentive]_vars

StaffFound == incentiveArgs.staffId \in incentiveDb.staff
CategoryFound == incentiveArgs.categoryId \in DOMAIN incentiveDb.categories
PolicyFound == incentiveArgs.policyId \in DOMAIN incentiveDb.policies
PolicyApplicable ==
  \E k \in 1..Len(ThePolicy.applicableCategories) :
    ThePolicy.applicableCategories[k] = incentiveArgs.categoryId
TargetFound ==
  \E k \in 1..Len(monthlyTargets) :
    /\ monthlyTargets[k].month = incentiveArgs.month
    /\ monthlyTargets[k].year = incentiveArgs.year
    /\ monthlyTargets[k].category = incentiveArgs.categoryId

\* The call threw the error with this message, returned no record and did
\* not read the services
FailedWith(message) ==
  /\ incentiveResult.outcome.threw
  /\ incentiveResult.outcome.error = message
  /\ incentiveResult.outcome.record = <<>>
  /\ ~incentiveResult.outcome.servicesRead

\* C17: calculateStaffIncentive fails with its own error for: staff not
\* found, category not found, policy not found, policy not applicable to the
\* category, no MonthlyTarget for (month, year, category); the first failing
\* check in this order decides the error, and a failed call returns no record
\* and reads no service items.  With every check passing it returns a record.
C17_PreconditionsInOrder ==
  incentiveResult.called
  => /\ ~StaffFound => FailedWith("Staff member not found")
     /\ (StaffFound /\ ~CategoryFound) => FailedWith("Staff category not found")
     /\ (StaffFound /\ CategoryFound /\ ~PolicyFound) => FailedWith("Incentive policy not found")
     /\ (StaffFound /\ CategoryFound /\ PolicyFound /\ ~PolicyApplicable)
          => FailedWith("The selected policy is not applicable to this staff category")
     /\ (StaffFound /\ CategoryFound /\ PolicyFound /\ PolicyApplicable /\ ~TargetFound)
          => FailedWith("No monthly target found")
     /\ (StaffFound /\ CategoryFound /\ PolicyFound /\ PolicyApplicable /\ TargetFound)
          => ~incentiveResult.outcome.threw /\ incentiveResult.outcome.servicesRead

\* The policy is not applicable and the target is missing too: the call
\* failed on the applicability check
C17_Witness ==
  /\ incentiveResult.called
  /\ StaffFound /\ CategoryFound /\ PolicyFound /\ ~PolicyApplicable /\ ~TargetFound
  /\ FailedWith("The selected policy is not applicable to this staff category")

\* ------------------------------------------------------------------------
\* MonthlySalary and MonthlyTarget collections: save and create
\* ------------------------------------------------------------------------
NoUser == 0     \* createdBy / updatedBy not set

Actors == {Staff, Colleague}

\* incentiveData handed to saveIncentiveData, and req.body of POST /monthly-record
SalaryData ==
  {[staff |-> u, month |-> 2, year |-> EpochYear, baseSalary |-> salary,
    incentiveBreakdown |-> [baseIncentive |-> base, targetBonus |-> 200,
                            serviceTypeBonus |-> 10, specialBonus |-> 0, deductions |-> 0]] :
     u \in {Staff, Colleague}, salary \in {-1, 100}, base \in {0, 50}}

\* req.body of POST /targets
TargetData ==
  [month : {2}, year : {EpochYear}, category : {"c1"}, targetCreditPoints : {-1, 10, 20}]

SameSalaryKey(a, b) == a.staff = b.staff /\ a.month = b.month /\ a.year = b.year

SameTargetKey(a, b) == a.month = b.month /\ a.year = b.year /\ a.category = b.category

\* Mutant: the lookup never finds the record
ExistingRecord_None(records, data) == 0

\* MonthlySalary.findOne({staff, month, year}): index of the first match, 0 if none
ExistingRecord(records, data) ==
  LET matches == {k \in 1..Len(records) : SameSalaryKey(records[k], data)}
  IN IF matches = {} THEN 0 ELSE CHOOSE k \in matches : \A j \in matches : k <= j

\* Schema validation of a MonthlySalary document (baseSalary: min 0)
ValidSalary(doc) == doc.baseSalary >= 0

\* Schema validation of a MonthlyTarget document (targetCreditPoints: min 0)
ValidTarget(doc) == doc.targetCreditPoints >= 0

\* Mutant: the hook leaves the totals as they were
preSaveSalary_Stale(doc) == doc

\* monthlySalarySchema.pre('save'): totalIncentive and grossSalary
preSaveSalary(doc) ==
  LET b == doc.incentiveBreakdown
      total == b.baseIncentive + b.targetBonus + b.serviceTypeBonus + b.specialBonus
                 - b.deductions
  IN [doc EXCEPT !.totalIncentive = total, !.grossSalary = doc.baseSalary + total]

\* paymentStatus, paymentDate, paymentMethod and paymentReference of a
\* document that was given none: the schema's default, the others unset
NoPayment ==
  [paymentStatus |-> "pending", paymentDate |-> NoTime, paymentMethod |-> "none",
   paymentReference |-> "none"]

\* The value of path f in the object handed over, the schema's value if absent
FieldOf(data, f) == IF f \in DOMAIN data THEN data[f] ELSE NoPayment[f]

\* new MonthlySalary({...data, createdBy, updatedBy})
NewSalary(data, createdBy, updatedBy) ==
  [staff |-> data.staff, month |-> data.month, year |-> data.year,
   baseSalary |-> data.baseSalary, incentiveBreakdown |-> data.incentiveBreakdown,
   totalIncentive |-> 0, grossSalary |-> 0,
   paymentStatus |-> FieldOf(data, "paymentStatus"),
   paymentDate |-> FieldOf(data, "paymentDate"),
   paymentMethod |-> FieldOf(data, "paymentMethod"),
   paymentReference |-> FieldOf(data, "paymentReference"),
   createdBy |-> createdBy, updatedBy |-> updatedBy]

\* Mutant: the existing document is replaced by a new one
AssignSalary_Replace(doc, data, actionBy) == NewSalary(data, actionBy, actionBy)

\* Object.assign(monthlySalary, incentiveData); monthlySalary.updatedBy = actionBy:
\* every key of incentiveData that is a path of the schema is set
AssignSalary(doc, data, actionBy) ==
  [f \in DOMAIN doc |->
     IF f = "updatedBy" THEN actionBy
     ELSE IF f \in DOMAIN data THEN data[f]
     ELSE doc[f]]

\* Insert of a new document under the unique index on (staff, month, year)
InsertSalary(records, doc) ==
  IF \E k \in 1..Len(records) : SameSalaryKey(records[k], doc)
  THEN [error |-> "E11000 duplicate key", records |-> records]
  ELSE [error |-> "none", records |-> Append(records, doc)]

\* Insert of a new document under the unique index on (month, year, category)
InsertTarget(targets, doc) ==
  IF \E k \in 1..Len(targets) : SameTargetKey(targets[k], doc)
  THEN [error |-> "E11000 duplicate key", records |-> targets]
  ELSE [error |-> "none", records |-> Append(targets, doc)]

\* document.save() of a new document: validation, pre-save hook, insert
SaveNewSalary(records, doc) ==
  IF ~ValidSalary(doc) THEN [error |-> "ValidationError", records |-> records]
  ELSE InsertSalary(records, preSaveSalary(doc))

\* document.save() of the document loaded from position k as `loaded`:
\* validation, pre-save hook, update of the paths that were changed
SaveLoadedSalary(records, k, doc, loaded) ==
  IF ~ValidSalary(doc) THEN [error |-> "ValidationError", records |-> records]
  ELSE LET mine == preSaveSalary(doc)
           db == records[k]
       IN [error |-> "none",
           records |->
             [records EXCEPT ![k] =
                [f \in DOMAIN db |-> Saved(db[f], mine[f], loaded[f])]]]

\* saveIncentiveData(incentiveData, actionBy) without interleaving
saveIncentiveData(records, data, actionBy) ==
  LET k == ExistingRecord(records, data)
  IN IF k # 0
     THEN SaveLoadedSalary(records, k, AssignSalary(records[k], data, actionBy), records[k])
     ELSE SaveNewSalary(records, NewSalary(data, actionBy, actionBy))

SaveIncentiveData(data, actionBy) ==
  LET r == saveIncentiveData(monthlySalaries, data, actionBy)
  IN /\ monthlySalaries' = r.records
     /\ response' = Response("saveIncentiveData", r.error,
                             ExistingRecord(monthlySalaries, data) # 0)
     /\ UNCHANGED <<orderVars, calcVars, incentiveDb, incentiveArgs, incentiveResult,
                    monthlyTargets, saveCalls>>

\* POST /api/v1/incentives/monthly-record: MonthlySalary.create(req.body)
CreateMonthlyRecord(body, user) ==
  LET r == SaveNewSalary(monthlySalaries, NewSalary(body, user, NoUser))
  IN /\ monthlySalaries' = r.records
     /\ response' = Response("createMonthlyRecord", r.error, FALSE)
     /\ UNCHANGED <<orderVars, calcVars, incentiveDb, incentiveArgs, incentiveResult,
                    monthlyTargets, saveCalls>>

\* POST /api/v1/incentives/targets: MonthlyTarget.create(req.body)
CreateTarget(body, user) ==
  LET doc == [month |-> body.month, year |-> body.year, category |-> body.category,
              targetCreditPoints |-> body.targetCreditPoints, createdBy |-> user]
      r == IF ~ValidTarget(doc) THEN [error |-> "ValidationError", records |-> monthlyTargets]
           ELSE InsertTarget(monthlyTargets, doc)
  IN /\ monthlyTargets' = r.records
     /\ response' = Response("createTarget", r.error, FALSE)
     /\ UNCHANGED <<orderVars, calcVars, incentiveDb, incentiveArgs, incentiveResult,
                    monthlySalaries, saveCalls>>

InitSalary ==
  /\ NoOrders
  /\ NoCalculation
  /\ incentiveDb = <<>>
  /\ incentiveArgs = <<>>
  /\ incentiveResult = NoResult
  /\ monthlySalaries = <<>>
  /\ monthlyTargets = <<>>
  /\ saveCalls = <<>>
  /\ response = NoResponse

NextSalary ==
  \/ \E data \in SalaryData, actionBy \in Actors : SaveIncentiveData(data, actionBy)
  \/ \E body \in SalaryData, user \in Actors : CreateMonthlyRecord(body, user)
  \/ \E body \in TargetData, user \in Actors : CreateTarget(body, user)

SpecSalary == InitSalary /\ [][NextSalary]_vars

\* Some document of the collection has the (staff, month, year) of data
HasSalaryKey(records, data) == \E k \in 1..Len(records) : SameSalaryKey(records[k], data)

\* No two documents of the collection have the same (staff, month, year)
UniqueSalaryKeys(records) ==
  \A i, j \in 1..Len(records) : (i # j) => ~SameSalaryKey(records[i], records[j])

\* C18: after every operation the collection has at most one MonthlySalary
\* record per (staff, month, year); a saveIncentiveData call for a key that
\* has a record creates no new record, and (its data being valid) leaves the
\* record with the call's values, the totals calculated from them, and the
\* caller as updatedBy.
C18_SaveUpsertsOneRecordPerKey ==
  [][/\ UniqueSalaryKeys(monthlySalaries')
     /\ \A data \in SalaryData, actionBy \in Actors :
          (SaveIncentiveData(data, actionBy) /\ HasSalaryKey(monthlySalaries, data))
          => /\ Len(monthlySalaries') = Len(monthlySalaries)
             /\ ValidSalary(data)
                  => LET k == CHOOSE i \in 1..Len(monthlySalaries) :
                                  SameSalaryKey(monthlySalaries[i], data)
                         b == data.incentiveBreakdown
                         total == b.baseIncentive + b.targetBonus + b.serviceTypeBonus
                                    + b.specialBonus - b.deductions
                     IN /\ response'.error = "none"
                        /\ monthlySalaries'[k]
                             = [monthlySalaries[k] EXCEPT
                                  !.baseSalary = data.baseSalary,
                                  !.incentiveBreakdown = b,
                                  !.totalIncentive = total,
                                  !.grossSalary = data.baseSalary + total,
                                  !.updatedBy = actionBy]]_vars

\* A second saveIncentiveData for the same key, by another caller and with
\* another base incentive, has updated the one record of the key
C18_Witness ==
  /\ response = Response("saveIncentiveData", "none", TRUE)
  /\ Len(monthlySalaries) = 1
  /\ monthlySalaries[1].createdBy # monthlySalaries[1].updatedBy
  /\ monthlySalaries[1].updatedBy # NoUser
  /\ monthlySalaries[1].incentiveBreakdown.baseIncentive = 50
  /\ monthlySalaries[1].totalIncentive = 260

\* C20: a create operation (POST monthly-record, POST targets) for a key that
\* already has a record succeeds and leaves the one record of the key with
\* the request's values, instead of inserting or failing.
C20_CreateOnExistingKeyMerges ==
  [][/\ \A body \in SalaryData, user \in Actors :
          (/\ CreateMonthlyRecord(body, user)
           /\ ValidSalary(body)
           /\ HasSalaryKey(monthlySalaries, body))
          => /\ response'.error = "none"
             /\ Len(monthlySalaries') = Len(monthlySalaries)
             /\ \E k \in 1..Len(monthlySalaries') :
                  /\ SameSalaryKey(monthlySalaries'[k], body)
                  /\ monthlySalaries'[k].incentiveBreakdown = body.incentiveBreakdown
     /\ \A body \in TargetData, user \in Actors :
          (/\ CreateTarget(body, user)
           /\ ValidTarget(body)
           /\ \E k \in 1..Len(monthlyTargets) : SameTargetKey(monthlyTargets[k], body))
          => /\ response'.error = "none"
             /\ Len(monthlyTargets') = Len(monthlyTargets)
             /\ \E k \in 1..Len(monthlyTargets') :
                  /\ SameTargetKey(monthlyTargets'[k], body)
                  /\ monthlyTargets'[k].targetCreditPoints = body.targetCreditPoints]_vars

\* ------------------------------------------------------------------------
\* saveIncentiveData: concurrent calls (each await is a step)
\* ------------------------------------------------------------------------
NumSaveCalls == 2

SaveCallIds == 1..NumSaveCalls

NoSalary == [staff |-> NoUser]

IdleCall == [pc |-> "start"]

\* A MonthlySalary document the collection may hold before the calls start
StoredSalary ==
  preSaveSalary(NewSalary(CHOOSE d \in SalaryData :
                            /\ d.staff = Staff
                            /\ d.baseSalary = 100
                            /\ d.incentiveBreakdown.baseIncentive = 0,
                          Staff, Staff))

\* Number of calls whose save() has returned
SavesDone == Cardinality({c \in SaveCallIds : saveCalls[c].pc = "done"})

\* await MonthlySalary.findOne({staff, month, year})
FindOneSalary(c, data, actionBy) ==
  /\ saveCalls[c].pc = "start"
  /\ LET k == ExistingRecord(monthlySalaries, data)
     IN saveCalls' = [saveCalls EXCEPT ![c] =
          [pc |-> "found", data |-> data, actionBy |-> actionBy, index |-> k,
           loaded |-> IF k = 0 THEN NoSalary ELSE monthlySalaries[k],
           savesBefore |-> SavesDone]]
  /\ UNCHANGED <<orderVars, calcVars, incentiveDb, incentiveArgs, incentiveResult,
                 monthlySalaries, monthlyTargets, response>>

\* Object.assign / new MonthlySalary, then await monthlySalary.save()
SaveSalary(c) ==
  /\ saveCalls[c].pc = "found"
  /\ LET call == saveCalls[c]
         r == IF call.index # 0
              THEN SaveLoadedSalary(monthlySalaries, call.index,
                                    AssignSalary(call.loaded, call.data, call.actionBy),
                                    call.loaded)
              ELSE SaveNewSalary(monthlySalaries,
                                 NewSalary(call.data, call.actionBy, call.actionBy))
     IN /\ monthlySalaries' = r.records
        /\ saveCalls' = [saveCalls EXCEPT ![c] = [call EXCEPT !.pc = "done"] @@
                                                   [error |-> r.error]]
        /\ response' = Response("saveIncentiveData", r.error, call.index # 0)
  /\ UNCHANGED <<orderVars, calcVars, incentiveDb, incentiveArgs, incentiveResult,
                 monthlyTargets>>

InitSaveConc ==
  /\ NoOrders
  /\ NoCalculation
  /\ incentiveDb = <<>>
  /\ incentiveArgs = <<>>
  /\ incentiveResult = NoResult
  /\ monthlySalaries \in {<<>>, <<StoredSalary>>}
  /\ monthlyTargets = <<>>
  /\ saveCalls = [c \in SaveCallIds |-> IdleCall]
  /\ response = NoResponse

NextSaveConc ==
  \/ \E c \in SaveCallIds, data \in SalaryData, actionBy \in Actors :
       FindOneSalary(c, data, actionBy)
  \/ \E c \in SaveCallIds : SaveSalary(c)

SpecSaveConc == InitSaveConc /\ [][NextSaveConc]_vars

\* Calls a and b are for the same key, with valid data, both have returned,
\* and both looked the record up before either had written
RacedOnOneKey(a, b) ==
  /\ a # b
  /\ saveCalls[a].pc = "done"
  /\ saveCalls[b].pc = "done"
  /\ saveCalls[a].savesBefore = 0
  /\ saveCalls[b].savesBefore = 0
  /\ SameSalaryKey(saveCalls[a].data, saveCalls[b].data)
  /\ ValidSalary(saveCalls[a].data)
  /\ ValidSalary(saveCalls[b].data)

\* C19: when two saveIncentiveData calls for the same (staff, month, year)
\* both look the record up before either writes, both return without an
\* error and the collection then holds exactly one record for the key.
C19_ConcurrentSavesBothSucceed ==
  \A a, b \in SaveCallIds :
    RacedOnOneKey(a, b)
    => /\ saveCalls[a].error = "none"
       /\ saveCalls[b].error = "none"
       /\ Cardinality({k \in 1..Len(monthlySalaries) :
                         SameSalaryKey(monthlySalaries[k], saveCalls[a].data)}) = 1

\* The totals of a MonthlySalary document agree with its own fields
TotalsAgree(doc) ==
  LET b == doc.incentiveBreakdown
  IN /\ doc.totalIncentive = b.baseIncentive + b.targetBonus + b.serviceTypeBonus
                               + b.specialBonus - b.deductions
     /\ doc.grossSalary = doc.baseSalary + doc.totalIncentive

\* C21: every MonthlySalary record of the collection, whether it was
\* inserted or updated by a save, has totalIncentive = baseIncentive +
\* targetBonus + serviceTypeBonus + specialBonus - deductions and
\* grossSalary = baseSalary + totalIncentive, over its current fields.
C21_TotalsRecomputedOnEverySave ==
  \A k \in 1..Len(monthlySalaries) : TotalsAgree(monthlySalaries[k])

\* An insert and an update have both happened: two records, the last save
\* having overwritten one of them with a base incentive of 50
C21_Witness ==
  /\ Len(monthlySalaries) = 2
  /\ response = Response("saveIncentiveData", "none", TRUE)
  /\ \E k \in 1..2 :
       /\ monthlySalaries[k].incentiveBreakdown.baseIncentive = 50
       /\ monthlySalaries[k].grossSalary = 360

\* ------------------------------------------------------------------------
\* calculateCategoryIncentives: the batch over the staff of a category
\* ------------------------------------------------------------------------
\* Mongoose's cast of a Number path: NaN is rejected, a finite value is kept
\* (the values of this model are whole numbers)
CastsToNumber(x) == x.kind # "NaN"

NumberValue(x) == x.num \div x.den

\* The incentive data as the MonthlySalary document takes it: baseIncentive
\* is the only field that calculateStaffIncentive leaves as a computed number
CastIncentive(data) ==
  [data EXCEPT !.incentiveBreakdown.baseIncentive = NumberValue(@)]

\* await this.saveIncentiveData(incentiveData, actionBy) on what
\* calculateStaffIncentive returned: the error thrown ("none" if none),
\* the collection afterwards and the record returned
SaveComputed(records, data, actionBy) ==
  IF ~CastsToNumber(data.incentiveBreakdown.baseIncentive)
  THEN [error |-> "ValidationError", records |-> records, saved |-> <<>>]
  ELSE LET r == saveIncentiveData(records, CastIncentive(data), actionBy)
       IN [error |-> r.error, records |-> r.records,
           saved |-> IF r.error = "none"
                     THEN r.records[ExistingRecord(r.records, data)] ELSE <<>>]

\* User.find({primaryServiceCategory: categoryId, status: 'active'})
RECURSIVE ActiveStaff(_, _, _)
ActiveStaff(userDocs, categoryId, k) ==
  IF k > Len(userDocs) THEN <<>>
  ELSE IF userDocs[k].primaryServiceCategory = categoryId /\ userDocs[k].status = "active"
       THEN <<userDocs[k]>> \o ActiveStaff(userDocs, categoryId, k + 1)
       ELSE ActiveStaff(userDocs, categoryId, k + 1)

\* Mutant: the first error ends the loop
AfterStaffError_Abort(k, n) == n + 1

\* catch (error) { console.error(...) }: the loop goes on with the next staff member
AfterStaffError(k, n) == k + 1

\* for (const staff of staffList) { try { ... } catch { ... } } from the
\* k-th staff member on; attempted and failed are kept for observation, the
\* code keeps results only
RECURSIVE StaffLoop(_, _, _, _, _, _)
StaffLoop(db, targets, args, staffList, k, acc) ==
  IF k > Len(staffList) THEN acc
  ELSE LET staffId == staffList[k].id
           tried == [acc EXCEPT !.attempted = Append(@, staffId)]
           incentive == calculateStaffIncentive(db, targets,
                          [staffId |-> staffId, month |-> args.month, year |-> args.year,
                           categoryId |-> args.categoryId, policyId |-> args.policyId,
                           options |-> NoOptions])
       IN IF incentive.threw
          THEN StaffLoop(db, targets, args, staffList, AfterStaffError(k, Len(staffList)),
                         [tried EXCEPT !.failed = Append(@, staffId)])
          ELSE LET s == SaveComputed(acc.records, incentive.record, args.actionBy)
               IN IF s.error # "none"
                  THEN StaffLoop(db, targets, args, staffList,
                                 AfterStaffError(k, Len(staffList)),
                                 [tried EXCEPT !.failed = Append(@, staffId)])
                  ELSE StaffLoop(db, targets, args, staffList, k + 1,
                                 [tried EXCEPT !.records = s.records,
                                               !.results = Append(@, s.saved)])

calculateCategoryIncentives(db, targets, records, args) ==
  StaffLoop(db, targets, args, ActiveStaff(db.users, args.categoryId, 1), 1,
            [records |-> records, results |-> <<>>, attempted |-> <<>>, failed |-> <<>>])

\* One call of calculateCategoryIncentives; returned is the value the caller gets
CalculateCategoryIncentives ==
  /\ incentiveResult = NoResult
  /\ LET r == calculateCategoryIncentives(incentiveDb, monthlyTargets, monthlySalaries,
                                          incentiveArgs)
     IN /\ monthlySalaries' = r.records
        /\ incentiveResult' = [called |-> TRUE, batch |-> TRUE, threw |-> FALSE,
                               returned |-> r.results,
                               attempted |-> r.attempted, failed |-> r.failed]
  /\ UNCHANGED <<orderVars, calcVars, incentiveDb, incentiveArgs, monthlyTargets,
                 saveCalls, response>>

\* calculateStaffIncentive called on its own for one staff member
CalculateOneIncentive ==
  /\ incentiveResult = NoResult
  /\ incentiveResult' = [called |-> TRUE, batch |-> FALSE,
                         outcome |-> calculateStaffIncentive(incentiveDb, monthlyTargets,
                                                             incentiveArgs)]
  /\ UNCHANGED <<orderVars, calcVars, incentiveDb, incentiveArgs, monthlySalaries,
                 monthlyTargets, saveCalls, response>>

NextBatch == CalculateCategoryIncentives \/ CalculateOneIncentive

\* An order of the month with one completed item credited to the staff member
OrderOf(u) ==
  <<[serviceType |-> "t1", status |-> "completed",
     completionTime |-> startDate(2, EpochYear),
     technicians |-> <<Credited(u, 5)>>]>>

\* The formulas of the batch: baseSalary * baseIncentiveRate, and
\* totalCreditPoints / totalCreditPoints (NaN for a staff member without points)
BatchFormulas ==
  {Bin("mul", Var("baseSalary"), Var("baseIncentiveRate")),
   Bin("div", Var("totalCreditPoints"), Var("totalCreditPoints"))}

UserDocs ==
  {<<[id |-> Staff, primaryServiceCategory |-> ca, status |-> sa],
     [id |-> Colleague, primaryServiceCategory |-> cb, status |-> sb]>> :
     ca \in CategoryIds, cb \in CategoryIds,
     sa \in {"active", "inactive"}, sb \in {"active", "inactive"}}
  \cup
  {<<[id |-> Colleague, primaryServiceCategory |-> cb, status |-> sb],
     [id |-> Staff, primaryServiceCategory |-> ca, status |-> sa]>> :
     ca \in CategoryIds, cb \in CategoryIds,
     sa \in {"active", "inactive"}, sb \in {"active", "inactive"}}

InitBatch ==
  /\ NoOrders
  /\ NoCalculation
  /\ incentiveArgs = [staffId |-> Staff, month |-> 2, year |-> EpochYear,
                      categoryId |-> "c1", policyId |-> "p1", options |-> NoOptions,
                      actionBy |-> Colleague]
  /\ monthlyTargets \in {<<>>, <<PlainTarget(2, EpochYear)>>}
  /\ \E userDocs \in UserDocs, formula \in BatchFormulas,
        services \in {<<>>, <<OrderOf(Staff)>>, <<OrderOf(Colleague)>>,
                      <<OrderOf(Staff), OrderOf(Colleague)>>} :
       incentiveDb = [users |-> userDocs,
                      staff |-> {Staff, Colleague},
                      categories |-> [c \in {"c1"} |-> PlainCategory],
                      policies |-> [p \in {"p1"} |->
                                      [PlainPolicy EXCEPT !.formulaDefinition = formula]],
                      services |-> services]
  /\ incentiveResult = NoResult
  /\ monthlySalaries \in {<<>>, <<StoredSalary>>}
  /\ saveCalls = <<>>
  /\ response = NoResponse

SpecBatch == InitBatch /\ [][NextBatch]_vars

\* The arguments calculateCategoryIncentives passes for staff member u
ArgsFor(u) ==
  [staffId |-> u, month |-> incentiveArgs.month, year |-> incentiveArgs.year,
   categoryId |-> incentiveArgs.categoryId, policyId |-> incentiveArgs.policyId,
   options |-> NoOptions]

\* The active staff members whose primary category is the batch's category
Eligible ==
  {u \in {Staff, Colleague} :
     \E k \in 1..Len(incentiveDb.users) :
       /\ incentiveDb.users[k].id = u
       /\ incentiveDb.users[k].primaryServiceCategory = incentiveArgs.categoryId
       /\ incentiveDb.users[k].status = "active"}

\* What calculateStaffIncentive gives for staff member u on its own
Computed(u) == calculateStaffIncentive(incentiveDb, monthlyTargets, ArgsFor(u))

\* Computing and saving succeeds for staff member u taken on its own
Succeeds(u) ==
  /\ ~Computed(u).threw
  /\ CastsToNumber(Computed(u).record.incentiveBreakdown.baseIncentive)

BatchDone == incentiveResult.called /\ incentiveResult.batch

\* The positions of a list of records that are about staff member u
PositionsOf(records, u) == {k \in 1..Len(records) : records[k].staff = u}

\* C22: calculateCategoryIncentives attempts every active staff member of
\* the category exactly once and no one else, throws nothing to its caller,
\* and for every staff member whose computation and save succeed on their
\* own - whatever happened to the staff members before - the collection
\* holds the saved record and the returned list contains it exactly once.
C22_BatchContinuesAfterFailure ==
  BatchDone
  => /\ ~incentiveResult.threw
     /\ Len(incentiveResult.attempted) = Cardinality(Eligible)
     /\ {incentiveResult.attempted[k] : k \in 1..Len(incentiveResult.attempted)} = Eligible
     /\ \A u \in Eligible :
          Succeeds(u)
          => /\ Cardinality(PositionsOf(incentiveResult.returned, u)) = 1
             /\ Cardinality(PositionsOf(monthlySalaries, u)) = 1
             /\ \A j \in PositionsOf(incentiveResult.returned, u),
                   k \in PositionsOf(monthlySalaries, u) :
                  /\ incentiveResult.returned[j] = monthlySalaries[k]
                  /\ monthlySalaries[k].updatedBy = incentiveArgs.actionBy
                  /\ monthlySalaries[k].incentiveBreakdown.baseIncentive
                       = NumberValue(Computed(u).record.incentiveBreakdown.baseIncentive)

\* The first staff member of the batch failed and the second one was saved
C22_Witness ==
  /\ BatchDone
  /\ Len(incentiveResult.attempted) = 2
  /\ incentiveResult.failed = <<incentiveResult.attempted[1]>>
  /\ Len(incentiveResult.returned) = 1
  /\ incentiveResult.returned[1].staff = incentiveResult.attempted[2]

\* C23: the value calculateCategoryIncentives returns has, for every staff
\* member whose computation or save failed, a failure entry with that staff
\* member's id.
C23_FailuresReported ==
  BatchDone
  => \A k \in 1..Len(incentiveResult.failed) :
       \E j \in 1..Len(incentiveResult.returned) :
         /\ "staffId" \in DOMAIN incentiveResult.returned[j]
         /\ incentiveResult.returned[j].staffId = incentiveResult.failed[k]

\* The stored record of staff member u in a collection, <<>> if there is none
StoredFor(records, u) ==
  IF PositionsOf(records, u) = {} THEN <<>>
  ELSE records[CHOOSE k \in PositionsOf(records, u) : TRUE]

\* C24: a step creates or modifies the MonthlySalary record of a staff
\* member only if every check of calculateStaffIncentive passed for that
\* staff member, and the record written then carries the base incentive,
\* target bonus and service type bonus computed for the staff member and
\* month; calculateStaffIncentive on its own writes nothing.
C24_WriteOnlyAfterFullComputation ==
  [][/\ \A u \in {Staff, Colleague} :
          StoredFor(monthlySalaries', u) # StoredFor(monthlySalaries, u)
          => /\ FailedPrecondition(incentiveDb, monthlyTargets, ArgsFor(u)) = "none"
             /\ LET b == StoredFor(monthlySalaries', u).incentiveBreakdown
                    c == Computed(u).record.incentiveBreakdown
                IN /\ b.baseIncentive = NumberValue(c.baseIncentive)
                   /\ b.targetBonus = c.targetBonus
                   /\ b.serviceTypeBonus = c.serviceTypeBonus
                   /\ TotalsAgree(StoredFor(monthlySalaries', u))
     /\ CalculateOneIncentive => monthlySalaries' = monthlySalaries]_vars

\* A batch in which an existing record was rewritten from a computation
\* that gave the target bonus
C24_Witness ==
  /\ BatchDone
  /\ Len(incentiveResult.returned) >= 1
  /\ \E k \in 1..Len(monthlySalaries) :
       /\ monthlySalaries[k].createdBy # monthlySalaries[k].updatedBy
       /\ monthlySalaries[k].incentiveBreakdown.targetBonus = 200
       /\ monthlySalaries[k].incentiveBreakdown.baseIncentive = 1

\* ------------------------------------------------------------------------
\* Properties of the order and item status (checked under Spec)
\* ------------------------------------------------------------------------
\* The status the items' statuses alone stand for
StatusOfItems(items) ==
  IF \A i \in ItemIds : items[i].status = "completed" THEN "completed"
  ELSE IF \A i \in ItemIds : items[i].status = "cancelled" THEN "cancelled"
  ELSE IF \E i \in ItemIds : items[i].status = "in_progress" THEN "in_progress"
  ELSE "pending"

\* C25: after every save the order's status is the one its items' statuses
\* stand for: completed when all are completed, cancelled when all are
\* cancelled, otherwise in_progress when some item is in_progress, otherwise
\* pending - whatever the status was before.
C25_OrderStatusDerivedFromItems ==
  orderStatus = StatusOfItems(serviceItems)

\* C26: no update-service-item operation takes an item whose status is
\* completed or cancelled back to pending or in_progress.
C26_FinishedItemStaysFinished ==
  [][\A i \in ItemIds :
       serviceItems[i].status \in {"completed", "cancelled"}
       => serviceItems'[i].status \notin {"pending", "in_progress"}]_vars

\* ------------------------------------------------------------------------
\* Lost ledger increments (checked under SpecConc)
\* ------------------------------------------------------------------------
\* The persisted item-level creditPoints of staff member u on item i, over
\* the technician entries that are marked creditsAssigned
RECURSIVE CreditedPoints(_, _, _)
CreditedPoints(techs, u, k) ==
  IF k > Len(techs) THEN 0
  ELSE (IF techs[k].technician = u /\ techs[k].creditsAssigned
        THEN techs[k].creditPoints ELSE 0) + CreditedPoints(techs, u, k + 1)

RECURSIVE SumCreditedPoints(_, _)
SumCreditedPoints(u, i) ==
  IF i > NumItems THEN 0
  ELSE CreditedPoints(serviceItems[i].technicians, u, 1) + SumCreditedPoints(u, i + 1)

NoRequestInFlight == \A r \in Requests : req[r].pc = "idle"

\* C27: once the concurrent distributions have ended, no increment of a
\* staff member's lifetime total has been lost: the total is at least the
\* sum of the shares the staff member was credited with on the items.
C27_NoLostIncrement ==
  NoRequestInFlight
  => \A u \in UserIds : users[u].totalCreditPoints >= SumCreditedPoints(u, 1)

\* ------------------------------------------------------------------------
\* The update-service-item handler when a database write is rejected
\* ------------------------------------------------------------------------
MaxLedgerPoints == 20    \* rejected requests are followed while no lifetime total exceeds this

\* The loop of assignCreditPoints from entry k on when the n-th user.save()
\* of addServiceCredits rejects (n = 0: none does): the User collection as
\* the loop leaves it, and whether the loop threw
RECURSIVE CreditUntilRejected(_, _, _, _, _, _)
CreditUntilRejected(techs, us, typeId, points, k, n) ==
  IF k > Len(techs) THEN [users |-> us, threw |-> FALSE]
  ELSE IF techs[k].creditsAssigned
  THEN CreditUntilRejected(techs, us, typeId, points, k + 1, n)
  ELSE LET u == techs[k].technician
       IN IF ~us[u].exists THEN CreditUntilRejected(techs, us, typeId, points, k + 1, n)
          ELSE IF n = 1 THEN [users |-> us, threw |-> TRUE]
          ELSE CreditUntilRejected(techs,
                                   [us EXCEPT ![u] = addServiceCredits(us[u], typeId, points)],
                                   typeId, points, k + 1, n - 1)

\* PUT /:id/service-item/:serviceItemId with body {status: 'completed'} in
\* which the n-th staff-ledger write rejects, or (n = 0) the save of the
\* order does: the error goes to next(error) and the loaded order, with the
\* status, completionTime and technician entries set on it, is dropped
InterruptedUpdate(i, n) ==
  LET applied == [serviceItems EXCEPT ![i].status = "completed"]
      item == applied[i]
      distributes == /\ ShouldAssign("completed", item)
                     /\ ~AllCreditsAssigned(item.technicians)
                     /\ serviceTypes[item.serviceType].exists
      points == pointsPerTechnician(serviceTypes[item.serviceType].creditPoints,
                                    Len(item.technicians))
      r == CreditUntilRejected(item.technicians, users, item.serviceType, points, 1, n)
  IN /\ users' = IF distributes THEN r.users ELSE users
     /\ \A u \in UserIds : users'[u].totalCreditPoints <= MaxLedgerPoints * Scale
     /\ last' = NotCalled
     /\ UNCHANGED <<serviceItems, orderStatus, serviceTypes, distOk, distFailed,
                    completedSent, req, calcVars, incentiveVars>>

NextFault ==
  \/ \E i \in ItemIds, s \in Statuses : UpdateServiceItem(i, s)
  \/ \E i \in ItemIds, n \in 0..NumUsers : InterruptedUpdate(i, n)

SpecFault == InitConc /\ [][NextFault]_vars

\* C28: in every state each staff member's lifetime credit total equals the
\* sum of the persisted item-level creditPoints of that staff member over
\* the technician entries marked creditsAssigned, also after a distribution
\* that a rejected ledger write or order save interrupted.
C28_LedgerEqualsCreditedItems ==
  \A u \in UserIds : users[u].totalCreditPoints = SumCreditedPoints(u, 1)

\* ------------------------------------------------------------------------
\* Removing technicians (the handlers run without interleaving)
\* ------------------------------------------------------------------------
NextRemove ==
  \/ \E i \in ItemIds, s \in Statuses \cup {NoStatus} : UpdateServiceItem(i, s)
  \/ \E i \in ItemIds, u \in UserIds : AddTechnician(i, u)
  \/ \E i \in ItemIds, u \in UserIds : RemoveTechnician(i, u)

SpecRemove == Init /\ [][NextRemove]_vars

\* Staff member u has an entry marked creditsAssigned among the technicians
IsCredited(techs, u) ==
  \E k \in 1..Len(techs) : techs[k].technician = u /\ techs[k].creditsAssigned

\* C30: a technician who has been credited for an item is still listed among
\* the item's technicians after every operation: no remove-technician
\* operation drops an entry marked creditsAssigned.
C30_CreditedTechnicianStaysListed ==
  [][\A i \in ItemIds, u \in UserIds :
       IsCredited(serviceItems[i].technicians, u)
       => IsAssigned(serviceItems'[i].technicians, u)]_vars

\* ------------------------------------------------------------------------
\* saveIncentiveData on records that carry payment details
\* ------------------------------------------------------------------------
\* req.body of POST /monthly-record for a salary that has been paid
PaidBodies ==
  {[staff |-> u, month |-> 2, year |-> EpochYear, baseSalary |-> 100,
    incentiveBreakdown |-> [baseIncentive |-> 0, targetBonus |-> 0,
                            serviceTypeBonus |-> 0, specialBonus |-> 0, deductions |-> 0],
    paymentStatus |-> "paid", paymentDate |-> Now, paymentMethod |-> "cash",
    paymentReference |-> "r1"] : u \in {Staff, Colleague}}

NextPayment ==
  \/ \E body \in PaidBodies, user \in Actors : CreateMonthlyRecord(body, user)
  \/ \E data \in SalaryData, actionBy \in Actors : SaveIncentiveData(data, actionBy)

SpecPayment == InitSalary /\ [][NextPayment]_vars

\* C29: a saveIncentiveData that succeeds on a key without a record inserts
\* a record with createdBy = updatedBy = the actor; on a key with a record
\* it overwrites the computed fields, sets updatedBy to the actor and leaves
\* createdBy, paymentStatus, paymentDate, paymentMethod and paymentReference
\* of the record as they were.
C29_SaveKeepsCreatorAndPayment ==
  [][\A data \in SalaryData, actionBy \in Actors :
       (SaveIncentiveData(data, actionBy) /\ response'.error = "none")
       => IF HasSalaryKey(monthlySalaries, data)
          THEN LET old == StoredFor(monthlySalaries, data.staff)
                   new == StoredFor(monthlySalaries', data.staff)
               IN /\ new.baseSalary = data.baseSalary
                  /\ new.incentiveBreakdown = data.incentiveBreakdown
                  /\ new.updatedBy = actionBy
                  /\ new.createdBy = old.createdBy
                  /\ new.paymentStatus = old.paymentStatus
                  /\ new.paymentDate = old.paymentDate
                  /\ new.paymentMethod = old.paymentMethod
                  /\ new.paymentReference = old.paymentReference
          ELSE /\ Len(monthlySalaries') = Len(monthlySalaries) + 1
               /\ SameSalaryKey(monthlySalaries'[Len(monthlySalaries')], data)
               /\ monthlySalaries'[Len(monthlySalaries')].createdBy = actionBy
               /\ monthlySalaries'[Len(monthlySalaries')].updatedBy = actionBy]_vars

\* A paid record created by one user was overwritten by saveIncentiveData
\* for another, next to a record that saveIncentiveData inserted
C29_Witness ==
  /\ response = Response("saveIncentiveData", "none", TRUE)
  /\ Len(monthlySalaries) = 2
  /\ \E k \in 1..2 :
       /\ monthlySalaries[k].paymentStatus = "paid"
       /\ monthlySalaries[k].paymentReference = "r1"
       /\ monthlySalaries[k].updatedBy # NoUser
       /\ monthlySalaries[k].updatedBy # monthlySalaries[k].createdBy
       /\ monthlySalaries[k].incentiveBreakdown.baseIncentive = 50
  /\ \E k \in 1..2 :
       /\ monthlySalaries[k].paymentStatus = "pending"
       /\ monthlySalaries[k].updatedBy = monthlySalaries[k].createdBy
====
